---- MODULE Spec2Model ----
(***************************************************************************)
(* Story graph ingestion and repair (src/repair_story_text.py).            *)
(*                                                                         *)
(* build_story is modelled as a state machine: the frontier loop, the      *)
(* second pass, the link repair pass, node assembly with the win-ending    *)
(* guarantee, and main's write of the link report.  The PDF page source    *)
(* and the prior story.json snapshot are the inputs, fixed in Init.        *)
(*                                                                         *)
(* A page of the source is represented by what the text functions compute  *)
(* from it: its letter count (has_usable_page), the (label, destination)   *)
(* pairs extract_choices finds in the section's combined text, and the     *)
(* keyword content of the prose clean_prose leaves.                        *)
(*                                                                         *)
(* The other programs that work on the story have a specification each:    *)
(* ExtractSpec (extract_choices on a text), LintSpec (lint_story.main on a *)
(* story file), EngineSpec (StoryEngine.load and its lookups) and          *)
(* ValidateSpec (validate.main with auto_fix).  A specification leaves the *)
(* variables of the other programs at rest.                                *)
(***************************************************************************)
EXTENDS Integers, Sequences, FiniteSets, TLC

(***************************************************************************)
(* Bounds of the model.                                                    *)
(***************************************************************************)
\* Section numbers (and so choice destinations) range over 1..MaxSection.
MaxSection == 5
\* The frontier loop's cap on assembled nodes, `len(parsed) < 200` at
\* src/repair_story_text.py:529, scaled to the model's section range.
SafetyCap == 2
\* The size of the input: the prior snapshot's nodes and the pages with
\* content, plus one for every choice in either.
MaxInput == 4

(***************************************************************************)
(* Program constants.                                                      *)
(***************************************************************************)
\* has_usable_page: alpha >= 80
UsableAlpha == 80
\* choices[:4], destinations[:4]
MaxChoices == 4
\* remap window: abs(num - destination) <= 2
RemapWindow == 2

Sections == 1..MaxSection

Min(a, b) == IF a <= b THEN a ELSE b

Abs(x) == IF x < 0 THEN -x ELSE x

\* sorted(S) for a finite set of integers.
RECURSIVE SortedSeq(_)
SortedSeq(S) ==
    IF S = {} THEN <<>>
    ELSE LET m == CHOOSE x \in S : \A y \in S : x <= y
         IN <<m>> \o SortedSeq(S \ {m})

\* The elements of a sequence.
Range(s) == {s[i] : i \in 1..Len(s)}

\* All orders in which the elements of a finite set can be listed.
Orderings(S) ==
    {f \in [1..Cardinality(S) -> S] : \A i, j \in 1..Cardinality(S) : f[i] = f[j] => i = j}

(***************************************************************************)
(* Text.  A text is empty, the placeholder of a section, or prose          *)
(* characterised by the keyword phrases that occur in it (lower-cased).    *)
(***************************************************************************)
EmptyText == [kind |-> "empty", sec |-> 0, terms |-> {}]

\* The placeholder without the number of its section.
UnnumberedPlaceholder(n) == [kind |-> "placeholder", sec |-> 0, terms |-> {}]

\* f"[Section {n} - not found in source]"
Placeholder(n) == [kind |-> "placeholder", sec |-> n, terms |-> {}]

ProseText(T) == [kind |-> "prose", sec |-> 0, terms |-> T]

\* Phrases of the keyword tables that contain another keyword as a substring.
SubstringPairs ==
    { <<"survive", "you survive">>, <<"return", "you return">>,
      <<"find", "you find the forbidden castle">>, <<"worth", "worth the trip">> }

\* `term in text.lower()`
Contains(text, term) ==
    \E t \in text.terms : t = term \/ <<term, t>> \in SubstringPairs

\* text.strip() is empty
IsBlankText(text) == text.kind = "empty"

death_terms ==
    { "death", "die", "dead", "killed", "execution", "burn", "collapse",
      "you don't", "too late", "never seen again", "won't be" }

win_terms ==
    { "victory", "you survive", "you return", "back in your own time",
      "you are free", "you find the forbidden castle", "worth the trip" }

cue_terms == { "return", "survive", "find", "worth" }

VALID_NODE_TYPES == { "normal", "ending_win", "ending_death", "ending_neutral" }

infer_node_type(text, has_choices) ==
    IF has_choices THEN "normal"
    ELSE IF \E term \in death_terms : Contains(text, term) THEN "ending_death"
    ELSE IF \E term \in win_terms : Contains(text, term) THEN "ending_win"
    ELSE "ending_neutral"

(***************************************************************************)
(* Labels and node ids.                                                    *)
(***************************************************************************)
\* A choice label: its words and the section number written in it (0: none).
Label(words, num) == [words |-> words, num |-> num]

\* f"Go to section {dest}."
DefaultLabel(dest) == Label("Go to section .", dest)

\* lint_story.normalize_choice_text: lower-case, runs of non-alphanumerics
\* become one space, stripped.
NormalizeWords(w) ==
    CASE w = "Go north" -> "go north"
      [] w = "go north." -> "go north"
      [] w = "Go south" -> "go south"
      [] w = "Go to section ." -> "go to section"
      [] OTHER -> w

normalize_choice_text(label) == Label(NormalizeWords(label.words), label.num)

\* f"section_{n}"
SectionId(n) == [prefix |-> "section_", num |-> n]

\* next_id.startswith("section_") and next_id.split("_")[-1].isdigit()
IsSectionId(id) == id.prefix = "section_" /\ id.num \in Nat

(***************************************************************************)
(* The page source.                                                        *)
(***************************************************************************)
BlankPage == [alpha |-> 0, choices |-> <<>>, text |-> EmptyText]

Choice(label, destination) == [text |-> label, destination |-> destination]

VARIABLES
    pages,               \* the PDF: section number -> page
    existing_by_section, \* the prior story.json: section number -> node
    queue,               \* the frontier
    parsed,              \* section number -> payload
    link_changes,        \* the change log
    existing_sections,   \* repair pass: the sections that exist
    order,               \* repair pass: the nodes being iterated, sorted
    pos,                 \* repair pass: <<index into order, index of the choice>>
    nodes,               \* the node list build_story returns
    report,              \* the link report main writes
    pc                   \* where build_story / main stands

\* The other programs of the repository work on these; build_story leaves
\* them alone.
VARIABLES
    raw_text,            \* extract_choices: the text, sentence by sentence
    cursor,              \* extract_choices: sentences scanned so far
    found,               \* extract_choices: the (label, destination) pairs
    seen_dest,           \* extract_choices: the destinations accepted
    store,               \* the story file of lint_story, story and validate
    args,                \* lint_story: the command line
    exit_code,           \* lint_story: what main returns
    writes,              \* lint_story: the write_text calls made
    loaded,              \* lint_story: the list as json.loads returned it
    node_by_id           \* StoryEngine: id -> node

\* The game runtime (src/game.py).
VARIABLES
    game_state,          \* Game.state: the screen
    running,             \* Game.running
    current_node_id,     \* Game.current_node_id
    pending_node_id,     \* Game.pending_node_id
    transition,          \* Game.transition: phase, timer_ms, _midpoint_emitted
    typewriter_finished, \* Game.typewriter.finished
    current_page_idx,    \* Game.current_page_idx
    choice_rows,         \* Game.choice_rows
    choice_cursor,       \* Game.choice_cursor.index
    player,              \* Game.player: health, food, gold
    visited_node_ids     \* Game.visited_node_ids

extractVars == <<raw_text, cursor, found, seen_dest>>

gameVars == <<game_state, running, current_node_id, pending_node_id, transition,
              typewriter_finished, current_page_idx, choice_rows, choice_cursor,
              player, visited_node_ids>>

storeVars == <<store, args, exit_code, writes, loaded, node_by_id>>

vars == <<pages, existing_by_section, queue, parsed, link_changes,
          existing_sections, order, pos, nodes, report, pc,
          extractVars, storeVars, gameVars>>

(***************************************************************************)
(* The variables of one program at rest while another one runs.            *)
(***************************************************************************)
buildVars == <<pages, existing_by_section, queue, parsed, link_changes,
               existing_sections, order, pos, nodes, report>>

BuildIdle ==
    /\ pages = <<>>
    /\ existing_by_section = <<>>
    /\ queue = <<>>
    /\ parsed = <<>>
    /\ link_changes = <<>>
    /\ existing_sections = {}
    /\ order = <<>>
    /\ pos = <<0, 0>>
    /\ nodes = <<>>
    /\ report = <<>>

ExtractIdle ==
    /\ raw_text = <<>>
    /\ cursor = 0
    /\ found = <<>>
    /\ seen_dest = {}

StoreIdle ==
    /\ store = <<>>
    /\ args = <<>>
    /\ exit_code = 0
    /\ writes = 0
    /\ loaded = <<>>
    /\ node_by_id = <<>>

GameIdle ==
    /\ game_state = ""
    /\ running = FALSE
    /\ current_node_id = <<>>
    /\ pending_node_id = <<>>
    /\ transition = <<>>
    /\ typewriter_finished = FALSE
    /\ current_page_idx = 0
    /\ choice_rows = <<>>
    /\ choice_cursor = 0
    /\ player = <<>>
    /\ visited_node_ids = <<>>

\* page_text(reader, section_number): "" outside the PDF.
page_text(n) == IF n \in DOMAIN pages THEN pages[n] ELSE BlankPage

\* A page test that wants more than 80 letters.
has_long_page(n) == page_text(n).alpha > UsableAlpha

has_usable_page(n) ==
    LET p == page_text(n)
    IN IF p.alpha = 0 THEN FALSE ELSE p.alpha >= UsableAlpha

\* A node of the prior snapshot: its text and the `next` ids of its choices.
PriorNode(text, next) == [present |-> TRUE, text |-> text, next |-> next]

\* dict.get(section_number) returning None.
None == [present |-> FALSE, text |-> EmptyText, next |-> <<>>]

existing_get(n) ==
    IF n \in DOMAIN existing_by_section THEN existing_by_section[n] ELSE None

\* Keeps the first occurrence of each element.
RECURSIVE Dedup(_)
Dedup(s) ==
    IF s = <<>> THEN <<>>
    ELSE LET front == Dedup(SubSeq(s, 1, Len(s) - 1))
             last == s[Len(s)]
         IN IF last \in Range(front) THEN front ELSE Append(front, last)

\* s[:n]
Take(s, n) == SubSeq(s, 1, Min(n, Len(s)))

RECURSIVE SelectSectionNums(_)
SelectSectionNums(ids) ==
    IF ids = <<>> THEN <<>>
    ELSE LET rest == SelectSectionNums(Tail(ids))
         IN IF IsSectionId(Head(ids)) THEN <<Head(ids).num>> \o rest ELSE rest

extract_existing_destinations(node) ==
    IF ~node.present THEN <<>>
    ELSE Take(Dedup(SelectSectionNums(node.next)), MaxChoices)

\* clean_prose(raw_text, section_number, fallback)
clean_prose(page, n, fallback) ==
    IF page.alpha = 0 \/ IsBlankText(page.text)
    THEN IF IsBlankText(fallback) THEN Placeholder(n) ELSE fallback
    ELSE page.text

extract_section_payload(n, existing_node) ==
    LET page == page_text(n)
        existing_text == IF existing_node.present THEN existing_node.text ELSE EmptyText
        cleaned_text == clean_prose(page, n, existing_text)
        fallback_destinations == extract_existing_destinations(existing_node)
        choices ==
            IF page.choices # <<>> THEN page.choices
            ELSE IF fallback_destinations # <<>> /\ ~Contains(cleaned_text, "the end")
                 THEN [i \in 1..Len(fallback_destinations) |->
                          Choice(DefaultLabel(fallback_destinations[i]),
                                 fallback_destinations[i])]
                 ELSE <<>>
    IN [ section_number |-> n,
         text |-> cleaned_text,
         node_type |-> infer_node_type(cleaned_text, choices # <<>>),
         choices |-> Take(choices, MaxChoices) ]
(***************************************************************************)
(* Inputs.                                                                 *)
(***************************************************************************)
\* Keyword content of the prose of pages without choices.
ProseTerms == { {}, {"die"}, {"victory"}, {"survive"}, {"the end", "survive"} }

\* The labels of the clauses of one section: the second and later ones
\* either normalise to the first one's key or do not.  (Two long clauses
\* that differ only in their page number get the same truncated label.)
LabelLists(n) ==
    {w \in [1..n -> {"Go north", "go north.", "Go south"}] :
        \A i \in 1..n : (w[i] = "Go north") <=> (i = 1)}

\* n (label, destination) pairs with distinct destinations, as
\* extract_choices returns them.
ClauseLists(n) ==
    { [i \in 1..n |-> Choice(Label(w[i], 0), d[i])] :
        d \in {e \in [1..n -> Sections] : \A i, j \in 1..n : e[i] = e[j] => i = j},
        w \in LabelLists(n) }

\* The PDF pages that hold prose and no choice clause; one is too short
\* for has_usable_page.
ProsePages ==
    { [alpha |-> 80, choices |-> <<>>, text |-> ProseText(T)] : T \in ProseTerms }
    \cup { [alpha |-> 40, choices |-> <<>>, text |-> ProseText({})] }

\* The PDF page whose text holds the clauses c.
ClausePage(c) == [alpha |-> 80, choices |-> c, text |-> ProseText({})]

\* The sequence of ClauseLists(1), ..., ClauseLists(n).
RECURSIVE ClauseTable(_)
ClauseTable(n) ==
    IF n < 1 THEN <<>> ELSE Append(ClauseTable(n - 1), ClauseLists(n))

ClauseListsUpTo == ClauseTable(MaxInput - 1)

\* The size of an input: one per prior node and per page with content,
\* plus one per choice of either.
RECURSIVE InputSize(_)
InputSize(f) ==
    IF DOMAIN f = {} THEN 0
    ELSE LET x == CHOOSE y \in DOMAIN f : TRUE
             rest == [y \in DOMAIN f \ {x} |-> f[y]]
         IN 1 + (IF "choices" \in DOMAIN f[x] THEN Len(f[x].choices) ELSE Len(f[x].next))
            + InputSize(rest)

\* The prior snapshots of size at most MaxInput: a node has no choice
\* (link 0) or one, to any section or to the number after the last one
\* extract_choices accepts (a snapshot is read as stored, whatever wrote it).
PriorSnapshots ==
    UNION { { [n \in D |-> IF link[n] = 0 THEN PriorNode(EmptyText, <<>>)
                           ELSE PriorNode(ProseText({}), <<SectionId(link[n])>>)] :
                link \in { l \in [D -> 0..(MaxSection + 1)] :
                             Cardinality(D) + Cardinality({n \in D : l[n] # 0})
                                <= MaxInput } } :
            D \in { E \in SUBSET Sections : Cardinality(E) <= MaxInput } }

\* The sections whose page build_story can come to read: section 1, the
\* prior snapshot's sections and every destination named in the input.
Referenced(ps, prior) ==
    {1} \cup DOMAIN prior
    \cup UNION { {c.destination : c \in Range(ps[n].choices)} : n \in DOMAIN ps }
    \cup UNION { {id.num : id \in Range(prior[n].next)} : n \in DOMAIN prior }

\* ps is made of the clause pages cp and of prose pages, at most k of them,
\* on sections a run can come to read.
WithProsePages(ps, cp, prior, k) ==
    /\ DOMAIN cp \subseteq Referenced(cp, prior)
    /\ \E Q \in SUBSET (Referenced(cp, prior) \ DOMAIN cp) :
         /\ Cardinality(Q) <= k
         /\ \E pp \in [Q -> ProsePages] : ps = pp @@ cp

\* ps is made of cp, of clause pages on sections of S and of prose pages,
\* of total size k at most.
RECURSIVE WithClausePages(_, _, _, _, _)
WithClausePages(ps, cp, prior, S, k) ==
    IF S = {} \/ k < 2 THEN WithProsePages(ps, cp, prior, k)
    ELSE LET x == CHOOSE y \in S : \A z \in S : y <= z
         IN \/ WithClausePages(ps, cp, prior, S \ {x}, k)
            \/ \E n \in 1..(k - 1) : \E c \in ClauseListsUpTo[n] :
                 WithClausePages(ps, (x :> ClausePage(c)) @@ cp, prior,
                                 S \ {x}, k - 1 - n)

\* The inputs of the model: of size MaxInput at most, and no page with
\* content that no run could read.
Inputs(ps, prior) ==
    /\ prior \in PriorSnapshots
    /\ WithClausePages(ps, <<>>, prior, Sections, MaxInput - InputSize(prior))

(***************************************************************************)
(* build_story: seeding and the frontier loop (lines 508-544).             *)
(***************************************************************************)
Init ==
    /\ Inputs(pages, existing_by_section)
    /\ queue = SortedSeq(DOMAIN existing_by_section
                         \cup (IF has_usable_page(1) THEN {1} ELSE {}))
    /\ parsed = <<>>
    /\ link_changes = <<>>
    /\ existing_sections = {}
    /\ order = <<>>
    /\ pos = <<0, 0>>
    /\ nodes = <<>>
    /\ report = <<>>
    /\ pc = "main"
    /\ ExtractIdle
    /\ StoreIdle
    /\ GameIdle

\* The appends without the test `if destination in queue: continue`.
RECURSIVE EnqueueQueued(_, _, _)
EnqueueQueued(q, choices, done) ==
    IF choices = <<>> THEN q
    ELSE LET destination == Head(choices).destination
             q1 == IF destination \in done THEN q
                   ELSE IF destination \in DOMAIN existing_by_section
                           \/ has_usable_page(destination)
                        THEN Append(q, destination)
                        ELSE q
         IN EnqueueQueued(q1, Tail(choices), done)

\* for choice in payload["choices"]: ... queue.append(destination)
RECURSIVE Enqueue(_, _, _)
Enqueue(q, choices, done) ==
    IF choices = <<>> THEN q
    ELSE LET destination == Head(choices).destination
             q1 == IF destination \in done THEN q
                   ELSE IF destination \in Range(q) THEN q
                   ELSE IF destination \in DOMAIN existing_by_section
                           \/ has_usable_page(destination)
                        THEN Append(q, destination)
                        ELSE q
         IN Enqueue(q1, Tail(choices), done)

MainLoopStep ==
    /\ pc = "main"
    /\ queue # <<>>
    /\ Cardinality(DOMAIN parsed) < SafetyCap
    /\ LET section_number == Head(queue)
           payload == extract_section_payload(section_number, existing_get(section_number))
       IN IF section_number \in DOMAIN parsed
          THEN /\ queue' = Tail(queue)
               /\ parsed' = parsed
          ELSE /\ parsed' = parsed @@ (section_number :> payload)
               /\ queue' = Enqueue(Tail(queue), payload.choices,
                                   DOMAIN parsed \cup {section_number})
    /\ UNCHANGED <<pages, existing_by_section, link_changes, existing_sections,
                   order, pos, nodes, report, pc>>
    /\ UNCHANGED <<extractVars, storeVars>>
    /\ UNCHANGED gameVars

MainLoopExit ==
    /\ pc = "main"
    /\ (queue = <<>> \/ Cardinality(DOMAIN parsed) >= SafetyCap)
    /\ pc' = "second"
    /\ UNCHANGED <<pages, existing_by_section, queue, parsed, link_changes,
                   existing_sections, order, pos, nodes, report>>
    /\ UNCHANGED <<extractVars, storeVars>>
    /\ UNCHANGED gameVars

(***************************************************************************)
(* build_story: the second pass (lines 546-572).                           *)
(***************************************************************************)
\* A change-log line.  remap and source are 0 where the line names none.
AddedEntry(destination) ==
    [kind |-> "added", destination |-> destination, remap |-> 0, source |-> 0]

RemappedEntry(destination, remap, source) ==
    [kind |-> "remapped", destination |-> destination, remap |-> remap, source |-> source]

StubEntry(destination, source) ==
    [kind |-> "stub", destination |-> destination, remap |-> 0, source |-> source]

\* The destinations of the choices of p's payloads that p does not hold.
missing(p) ==
    UNION { { c.destination : c \in Range(p[n].choices) } : n \in DOMAIN p } \ DOMAIN p

\* A round that assembles nothing of what it found missing.
AddNothing(state, todo) == state

\* for destination in missing: if has_usable_page: parsed[destination] = ...
RECURSIVE AddMissing(_, _)
AddMissing(state, todo) ==
    IF todo = <<>> THEN state
    ELSE LET destination == Head(todo)
         IN IF has_usable_page(destination)
            THEN AddMissing(
                   [ parsed |-> (destination :>
                                    extract_section_payload(destination,
                                                            existing_get(destination)))
                                @@ state.parsed,
                     link_changes |-> Append(state.link_changes, AddedEntry(destination)) ],
                   Tail(todo))
            ELSE AddMissing(state, Tail(todo))

\* One round of the `while True` loop that adds something.
SecondPassRound ==
    /\ pc = "second"
    /\ \E destination \in missing(parsed) : has_usable_page(destination)
    /\ LET after == AddMissing([parsed |-> parsed, link_changes |-> link_changes],
                               SortedSeq(missing(parsed)))
       IN /\ parsed' = after.parsed
          /\ link_changes' = after.link_changes
    /\ UNCHANGED <<pages, existing_by_section, queue, existing_sections,
                   order, pos, nodes, report, pc>>
    /\ UNCHANGED <<extractVars, storeVars>>
    /\ UNCHANGED gameVars

\* The round that breaks out of the loop; the repair pass is set up.
SecondPassExit ==
    /\ pc = "second"
    /\ ~ \E destination \in missing(parsed) : has_usable_page(destination)
    /\ existing_sections' = DOMAIN parsed
    /\ order' = SortedSeq(DOMAIN parsed)
    /\ pos' = <<1, 1>>
    /\ pc' = "repair"
    /\ UNCHANGED <<pages, existing_by_section, queue, parsed, link_changes,
                   nodes, report>>
    /\ UNCHANGED <<extractVars, storeVars>>
    /\ UNCHANGED gameVars

(***************************************************************************)
(* build_story: the link repair pass (lines 574-602).                      *)
(***************************************************************************)
\* A sort key that leaves out the section number: the distance alone.
distance_key(x, target) == <<Abs(x - target), 0>>

\* build_story.choice_sort_key, the key of the remap's sort.
choice_sort_key(x, target) == <<Abs(x - target), x>>

\* Tuple comparison of two keys.
KeyLess(a, b) == a[1] < b[1] \/ (a[1] = b[1] /\ a[2] < b[2])

\* A window of one section on either side.
near_adjacent(existing, destination) ==
    { num \in existing : Abs(num - destination) <= 1 }

\* [num for num in existing_sections if abs(num - destination) <= 2]
near(existing, destination) ==
    { num \in existing : Abs(num - destination) <= RemapWindow }

\* sorted(listing, key=...)[0]: the sort is stable, so of the elements with
\* the least key the one listed first.
remap(listing, destination) ==
    LET least == { i \in 1..Len(listing) :
                     \A j \in 1..Len(listing) :
                        ~KeyLess(choice_sort_key(listing[j], destination),
                                 choice_sort_key(listing[i], destination)) }
    IN listing[CHOOSE i \in least : \A j \in least : i <= j]

\* The positions not yet passed, were the inner loop to stop after the
\* first choice of a node.
FirstChoicesAhead ==
    { <<i, j>> \in (1..Len(order)) \X {1} :
        /\ j <= Len(parsed[order[i]].choices)
        /\ (i > pos[1] \/ (i = pos[1] /\ j >= pos[2])) }

\* The positions <<node, choice>> not yet passed by the two for loops.
Ahead ==
    { <<i, j>> \in (1..Len(order)) \X (1..MaxChoices) :
        /\ j <= Len(parsed[order[i]].choices)
        /\ (i > pos[1] \/ (i = pos[1] /\ j >= pos[2])) }

\* Those whose destination does not exist.
Dangling ==
    { p \in Ahead : parsed[order[p[1]]].choices[p[2]].destination \notin existing_sections }

\* The first of them: the choice the loops stop at next.
NextDangling ==
    CHOOSE p \in Dangling :
        \A q \in Dangling : p[1] < q[1] \/ (p[1] = q[1] /\ p[2] <= q[2])

\* A write that redirects every choice of the node.
redirect_all(p, source, j, r) ==
    [p EXCEPT ![source].choices =
        [k \in DOMAIN p[source].choices |->
            [p[source].choices[k] EXCEPT !.destination = r]]]

\* choice["destination"] = remap
redirect(p, source, j, r) ==
    [p EXCEPT ![source].choices[j].destination = r]

\* The branch of lines 583-590.
RemapChoice ==
    /\ pc = "repair"
    /\ Dangling # {}
    /\ LET p == NextDangling
           source == order[p[1]]
           destination == parsed[source].choices[p[2]].destination
       IN /\ near(existing_sections, destination) # {}
          /\ \E listing \in Orderings(near(existing_sections, destination)) :
               LET r == remap(listing, destination)
               IN /\ parsed' = redirect(parsed, source, p[2], r)
                  /\ link_changes' =
                       Append(link_changes, RemappedEntry(destination, r, source))
          /\ pos' = <<p[1], p[2] + 1>>
    /\ UNCHANGED <<pages, existing_by_section, queue, existing_sections,
                   order, nodes, report, pc>>
    /\ UNCHANGED <<extractVars, storeVars>>
    /\ UNCHANGED gameVars

\* A stub left with the default node type of a section.
NormalStub(destination) ==
    [ section_number |-> destination,
      text |-> Placeholder(destination),
      node_type |-> "normal",
      choices |-> <<>> ]

\* The stub of lines 592-598.
Stub(destination) ==
    [ section_number |-> destination,
      text |-> Placeholder(destination),
      node_type |-> "ending_neutral",
      choices |-> <<>> ]

CreateStub ==
    /\ pc = "repair"
    /\ Dangling # {}
    /\ LET p == NextDangling
           source == order[p[1]]
           destination == parsed[source].choices[p[2]].destination
       IN /\ near(existing_sections, destination) = {}
          /\ parsed' = (destination :> Stub(destination)) @@ parsed
          /\ existing_sections' = existing_sections \cup {destination}
          /\ link_changes' = Append(link_changes, StubEntry(destination, source))
          /\ pos' = <<p[1], p[2] + 1>>
    /\ UNCHANGED <<pages, existing_by_section, queue, order, nodes, report, pc>>
    /\ UNCHANGED <<extractVars, storeVars>>
    /\ UNCHANGED gameVars

(***************************************************************************)
(* build_story: assembly, ordering and the win ending (lines 604-657).     *)
(***************************************************************************)
\* The `next` of an assembled choice.  Every label of the model is shorter
\* than the 60 characters of `[:60]`.
AssembledChoices(choices) ==
    [ j \in 1..Len(Take(choices, MaxChoices)) |->
        [text |-> choices[j].text, next |-> SectionId(choices[j].destination)] ]

\* The node of lines 606-637.
Node(payload, section_number) ==
    LET choices == AssembledChoices(payload.choices)
        declared == IF payload.node_type \in VALID_NODE_TYPES
                    THEN payload.node_type
                    ELSE infer_node_type(payload.text, choices # <<>>)
    IN [ id |-> SectionId(section_number),
         section_number |-> section_number,
         text |-> IF IsBlankText(payload.text) THEN Placeholder(section_number)
                  ELSE payload.text,
         node_type |-> IF choices # <<>> THEN "normal" ELSE declared,
         choices |-> choices ]

\* key=lambda node: node["section_number"]
section_key(node) == <<0, node.section_number>>

\* The entry key with its test the wrong way round.
entry_last_key(node) ==
    <<IF node.section_number = 1 THEN 1 ELSE 0, node.section_number>>

\* key=lambda node: (node["section_number"] != 1, node["section_number"])
entry_first_key(node) ==
    <<IF node.section_number # 1 THEN 1 ELSE 0, node.section_number>>

\* The indices in S of a list with these keys, in the order list.sort gives
\* them: by key, and by position among equal keys.
RECURSIVE SortIndices(_, _)
SortIndices(keys, S) ==
    IF S = {} THEN <<>>
    ELSE LET m == CHOOSE i \in S :
                    \A j \in S \ {i} : KeyLess(keys[i], keys[j])
                                       \/ (keys[i] = keys[j] /\ i < j)
         IN <<m>> \o SortIndices(keys, S \ {m})

\* list.sort with the keys given per position.
Sort(list, keys) ==
    LET idx == SortIndices(keys, DOMAIN list)
    IN [i \in DOMAIN list |-> list[idx[i]]]

\* Lines 604-642: the nodes in the order build_story settles on.
assemble(p) ==
    LET listed == SortedSeq(DOMAIN p)
        built == [i \in DOMAIN listed |-> Node(p[listed[i]], listed[i])]
        bynum == Sort(built, [i \in DOMAIN built |-> section_key(built[i])])
    IN IF \E i \in DOMAIN bynum : bynum[i].section_number = 1
       THEN Sort(bynum, [i \in DOMAIN bynum |-> entry_first_key(bynum[i])])
       ELSE bynum

\* The last position that is in S: a loop without its `break`.
Last(S) == CHOOSE i \in S : \A j \in S : j <= i

\* The first position that is in S: `for node in nodes: if ...: break`.
First(S) == CHOOSE i \in S : \A j \in S : i <= j

\* Lines 646-650: the ending_neutral nodes that end on an affirmative cue.
CueMatches(ns) ==
    { i \in DOMAIN ns :
        /\ ns[i].node_type = "ending_neutral"
        /\ Contains(ns[i].text, "the end")
        /\ \E term \in cue_terms : Contains(ns[i].text, term) }

Neutrals(ns) == { i \in DOMAIN ns : ns[i].node_type = "ending_neutral" }

\* Lines 644-655.
ensure_win(ns) ==
    IF \E i \in DOMAIN ns : ns[i].node_type = "ending_win" THEN ns
    ELSE IF CueMatches(ns) # {}
         THEN [ns EXCEPT ![First(CueMatches(ns))].node_type = "ending_win"]
    ELSE IF Neutrals(ns) # {}
         THEN [ns EXCEPT ![First(Neutrals(ns))].node_type = "ending_win"]
    ELSE ns

\* The loops have passed every choice: the nodes are assembled and returned.
AssembleNodes ==
    /\ pc = "repair"
    /\ Dangling = {}
    /\ nodes' = ensure_win(assemble(parsed))
    /\ pc' = "built"
    /\ UNCHANGED <<pages, existing_by_section, queue, parsed, link_changes,
                   existing_sections, order, pos, report>>
    /\ UNCHANGED <<extractVars, storeVars>>
    /\ UNCHANGED gameVars

(***************************************************************************)
(* main: write_link_report (lines 666-675).                                *)
(***************************************************************************)
\* "No broken links found."
NoBrokenLinks == [kind |-> "none", destination |-> 0, remap |-> 0, source |-> 0]

\* A report that is the joined changes whether there are any or not.
write_changes(changes) == changes

write_link_report(changes) ==
    IF changes # <<>> THEN changes ELSE <<NoBrokenLinks>>

\* write_story (lines 660-663): story.json holds the node list.
write_story(ns) == ns

\* main after build_story: write_story(nodes), then write_link_report(changes).
WriteLinkReport ==
    /\ pc = "built"
    /\ store' = write_story(nodes)
    /\ writes' = writes + 1
    /\ report' = write_link_report(link_changes)
    /\ pc' = "done"
    /\ UNCHANGED <<pages, existing_by_section, queue, parsed, link_changes,
                   existing_sections, order, pos, nodes>>
    /\ UNCHANGED <<extractVars, args, exit_code, loaded, node_by_id>>
    /\ UNCHANGED gameVars

Next ==
    \/ MainLoopStep
    \/ MainLoopExit
    \/ SecondPassRound
    \/ SecondPassExit
    \/ RemapChoice
    \/ CreateStub
    \/ AssembleNodes
    \/ WriteLinkReport

Spec == Init /\ [][Next]_vars

(***************************************************************************)
(* Running the program again on the story it wrote.                        *)
(***************************************************************************)
\* The runs of one behaviour.
MaxRuns == 2

\* Lines 504-517: existing_by_section as read from a story that build_story
\* wrote: per section number the node's text and the `next` of its choices.
existing_from(ns) ==
    [ n \in { ns[i].section_number : i \in DOMAIN ns } |->
        LET node == ns[CHOOSE i \in DOMAIN ns : ns[i].section_number = n]
        IN PriorNode(node.text, [j \in DOMAIN node.choices |-> node.choices[j].next]) ]

\* main is started again: the same PDF, and the story.json of the last run.
RunAgain ==
    /\ pc = "done"
    /\ writes < MaxRuns
    /\ existing_by_section' = existing_from(store)
    /\ queue' = SortedSeq(DOMAIN existing_from(store)
                          \cup (IF has_usable_page(1) THEN {1} ELSE {}))
    /\ parsed' = <<>>
    /\ link_changes' = <<>>
    /\ existing_sections' = {}
    /\ order' = <<>>
    /\ pos' = <<0, 0>>
    /\ nodes' = <<>>
    /\ report' = <<>>
    /\ pc' = "main"
    /\ UNCHANGED <<pages, extractVars, storeVars>>
    /\ UNCHANGED gameVars

RerunNext == Next \/ RunAgain

RerunSpec == Init /\ [][RerunNext]_vars

\* The states in which MainLoopStep can be taken and in which AssembleNodes
\* can: their guards (each changes queue or pc).
CanStepMainLoop ==
    pc = "main" /\ queue # <<>> /\ Cardinality(DOMAIN parsed) < SafetyCap

CanAssemble == pc = "repair" /\ Dangling = {}

\* build_story is one sequential run: whenever a step of it can be taken, one
\* is taken.  That is weak fairness of every action; for MainLoopStep and
\* AssembleNodes it is written out, with the guard for ENABLED.
FairSpec ==
    /\ Spec
    /\ ([]<>(~CanStepMainLoop) \/ []<><<MainLoopStep>>_vars)
    /\ WF_vars(MainLoopExit)
    /\ WF_vars(SecondPassRound)
    /\ WF_vars(SecondPassExit)
    /\ WF_vars(RemapChoice)
    /\ WF_vars(CreateStub)
    /\ ([]<>(~CanAssemble) \/ []<><<AssembleNodes>>_vars)
    /\ WF_vars(WriteLinkReport)

(***************************************************************************)
(* repair_story_text.extract_choices (lines 176-194).  A text is the       *)
(* sequence of its sentences, a sentence the sequence of its words (its    *)
(* terminator left out), a word a string of the vocabulary below.          *)
(***************************************************************************)
MaxSentences == 5

\* `1 <= destination <= 500`
MaxDestination == 500

\* `if len(found) >= 4: break`
MaxFound == 4

\* `if alpha < 6 or len(text) < 8`
MinLabelAlpha == 6

\* The characters of a word.
Chars(word) ==
    CASE word = "3" -> <<"3">>
      [] word = "4" -> <<"4">>
      [] word = "5" -> <<"5">>
      [] word = "6" -> <<"6">>
      [] word = "12" -> <<"1", "2">>
      [] word = "l2" -> <<"l", "2">>
      [] word = "600" -> <<"6", "0", "0">>
      [] word = "to" -> <<"t", "o">>
      [] word = "go" -> <<"g", "o">>
      [] word = "if" -> <<"i", "f">>
      [] word = "continue" -> <<"c", "o", "n", "t", "i", "n", "u", "e">>
      [] word = "a" -> <<"a">>
      [] word = "you" -> <<"y", "o", "u">>
      [] word = "see" -> <<"s", "e", "e">>
      [] word = "turn" -> <<"t", "u", "r", "n">>
      [] word = "page" -> <<"p", "a", "g", "e">>
      [] word = "fork" -> <<"f", "o", "r", "k">>
      [] word = "reach" -> <<"r", "e", "a", "c", "h">>
      [] word = "section" -> <<"s", "e", "c", "t", "i", "o", "n">>

Digits == [c \in {"0", "1", "2", "3", "4", "5", "6", "7", "8", "9"} |->
             CASE c = "0" -> 0 [] c = "1" -> 1 [] c = "2" -> 2 [] c = "3" -> 3
               [] c = "4" -> 4 [] c = "5" -> 5 [] c = "6" -> 6 [] c = "7" -> 7
               [] c = "8" -> 8 [] c = "9" -> 9]

\* The digit a letter is read as where a number is expected.
DIGIT_OCR_MAP ==
    [c \in {"O", "o", "I", "l", "S", "s", "B", "g", "q", "H", "h"} |->
       CASE c \in {"O", "o"} -> 0
         [] c \in {"I", "l"} -> 1
         [] c \in {"S", "s"} -> 5
         [] c = "B" -> 8
         [] c \in {"g", "q"} -> 9
         [] c \in {"H", "h"} -> 7]

\* The result of token_to_int: an integer, or None (ok = FALSE).
NoInt == [ok |-> FALSE, value |-> 0]

SomeInt(n) == [ok |-> TRUE, value |-> n]

\* token_to_int (lines 80-93): the digits of the token, a letter of
\* DIGIT_OCR_MAP read as its digit; None if another character occurs.
RECURSIVE ReadDigits(_, _)
ReadDigits(chars, acc) ==
    IF chars = <<>> THEN SomeInt(acc)
    ELSE LET c == Head(chars)
         IN IF c \in DOMAIN Digits
            THEN ReadDigits(Tail(chars), 10 * acc + Digits[c])
            ELSE IF c \in DOMAIN DIGIT_OCR_MAP
            THEN ReadDigits(Tail(chars), 10 * acc + DIGIT_OCR_MAP[c])
            ELSE NoInt

token_to_int(token) ==
    IF token = <<>> THEN NoInt ELSE ReadDigits(token, 0)

\* CHOICE_SENTENCE_RE (lines 24-32): the words a match may open with before
\* its cue word, and the cue words.
PrefixWords ==
    { "if", "when", "should", "decide", "step", "wiser", "wait", "you",
      "you're", "to", "go" }

CueWords ==
    { "turn", "go", "proceed", "continue", "head", "page", "section",
      "p.", "pg." }

\* The match that starts at word i of the sentence: after a prefix word the
\* nearest later cue word that a word follows, else word i itself as the cue
\* word.  0 where no match starts at i.
CueFrom(sentence, i) ==
    LET later == { k \in (i + 1)..(Len(sentence) - 1) : sentence[k] \in CueWords }
    IN IF sentence[i] \in PrefixWords /\ later # {}
       THEN CHOOSE k \in later : \A m \in later : k <= m
       ELSE IF sentence[i] \in CueWords /\ i < Len(sentence) THEN i
       ELSE 0

\* The leftmost match of CHOICE_SENTENCE_RE in the sentence: where it
\* starts, and its token group, the first five characters at most of the
\* word after the cue word.
NoMatch == [matched |-> FALSE, start |-> 0, token |-> <<>>]

MatchSentence(sentence) ==
    LET starts == { i \in 1..Len(sentence) : CueFrom(sentence, i) # 0 }
    IN IF starts = {} THEN NoMatch
       ELSE LET i == CHOOSE s \in starts : \A t \in starts : s <= t
            IN [ matched |-> TRUE,
                 start |-> i,
                 token |-> Take(Chars(sentence[CueFrom(sentence, i) + 1]), 5) ]

\* The text of a cleaned label, capitalised, the number written apart.
Phrase(words) ==
    CASE words = <<"section">> -> "Section ."
      [] words = <<"go", "to", "section">> -> "Go to section ."

\* The letters of a word.
AlphaCount(word) ==
    Cardinality({ i \in 1..Len(Chars(word)) : Chars(word)[i] \notin DOMAIN Digits })

RECURSIVE SumAlpha(_)
SumAlpha(words) ==
    IF words = <<>> THEN 0 ELSE AlphaCount(Head(words)) + SumAlpha(Tail(words))

\* clean_choice_label (lines 149-169): `page` becomes `section`, the word
\* after it the destination; a label of fewer than 6 letters is replaced by
\* the default one.  Every label of the model that has 6 letters has 8
\* characters, and none has more than 60.
clean_choice_label(matched, destination) ==
    LET renamed == [i \in DOMAIN matched |->
                      IF matched[i] = "page" THEN "section" ELSE matched[i]]
        numbered == { i \in DOMAIN renamed : i > 1 /\ renamed[i - 1] = "section" }
        kept == [i \in DOMAIN renamed |->
                   IF i \in numbered THEN <<>> ELSE <<renamed[i]>>]
        words == IF kept = <<>> THEN <<>>
                 ELSE LET RECURSIVE Flat(_)
                          Flat(i) == IF i > Len(kept) THEN <<>>
                                     ELSE kept[i] \o Flat(i + 1)
                      IN Flat(1)
    IN IF SumAlpha(words) < MinLabelAlpha
       THEN DefaultLabel(destination)
       ELSE Label(Phrase(words), destination)

\* `destination is None or not (1 <= destination <= 500)`
InRange(result) == result.ok /\ 1 <= result.value /\ result.value <= MaxDestination

\* `if destination in seen_dest: continue` left out.
AlwaysNew(destination, seen) == TRUE

\* `if destination in seen_dest: continue`
IsNew(destination, seen) == destination \notin seen

\* The sentences of the model.
SentenceAlphabet ==
    { <<"you", "reach", "a", "fork">>,
      <<"turn", "to", "12", "if", "you", "continue">>,
      <<"turn", "12">>,
      <<"see", "page", "3">>,
      <<"see", "page", "4">>,
      <<"see", "page", "5">>,
      <<"go", "to", "page", "6">>,
      <<"see", "page", "l2">>,
      <<"see", "page", "600">> }

ExtractInit ==
    /\ \E n \in 0..MaxSentences : raw_text \in [1..n -> SentenceAlphabet]
    /\ cursor = 0
    /\ found = <<>>
    /\ seen_dest = {}
    /\ pc = "scan"
    /\ BuildIdle
    /\ StoreIdle
    /\ GameIdle

\* One sentence of the text: the body of the for loop if the sentence holds
\* a match, nothing otherwise.
ScanSentence ==
    /\ pc = "scan"
    /\ cursor < Len(raw_text)
    /\ Len(found) < MaxFound
    /\ cursor' = cursor + 1
    /\ LET sentence == raw_text[cursor + 1]
           match == MatchSentence(sentence)
           destination == token_to_int(match.token)
       IN IF match.matched /\ InRange(destination)
             /\ IsNew(destination.value, seen_dest)
          THEN /\ seen_dest' = seen_dest \cup {destination.value}
               /\ found' = Append(found,
                             Choice(clean_choice_label(
                                      SubSeq(sentence, match.start, Len(sentence)),
                                      destination.value),
                                    destination.value))
          ELSE UNCHANGED <<seen_dest, found>>
    /\ UNCHANGED <<raw_text, pc, buildVars, storeVars>>
    /\ UNCHANGED gameVars

\* `return found`: after the break, or at the end of the text.
ExtractReturn ==
    /\ pc = "scan"
    /\ cursor = Len(raw_text) \/ Len(found) >= MaxFound
    /\ pc' = "returned"
    /\ UNCHANGED <<extractVars, buildVars, storeVars>>
    /\ UNCHANGED gameVars

ExtractNext ==
    \/ ScanSentence
    \/ ExtractReturn

ExtractSpec == ExtractInit /\ [][ExtractNext]_vars

(***************************************************************************)
(* Properties of build_story and of the report main writes.                *)
(***************************************************************************)
\* build_story has returned.
Returned == pc \in {"built", "done"}

\* The kinds of the lines of the change log.
LogKinds == { link_changes[i].kind : i \in 1..Len(link_changes) }

\* The sections the repair pass made stubs for.
Stubbed ==
    { link_changes[i].destination :
        i \in { k \in 1..Len(link_changes) : link_changes[k].kind = "stub" } }

\* C1: every choice of every returned node has a `next` that is the id of a
\* returned node, also when the cap on assembled nodes stopped the frontier
\* loop with sections still queued.
C1_NoDanglingEdge ==
    Returned =>
        \A i \in DOMAIN nodes : \A j \in DOMAIN nodes[i].choices :
            \E k \in DOMAIN nodes : nodes[k].id = nodes[i].choices[j].next

\* The cap stopped the frontier loop early and the repair pass had a
\* dangling choice to close.
C1_Witness ==
    /\ pc = "built"
    /\ queue # <<>>
    /\ Cardinality(DOMAIN existing_by_section) > SafetyCap
    /\ LogKinds \cap {"remapped", "stub"} # {}
    /\ \E i \in DOMAIN nodes : nodes[i].choices # <<>>

\* C2: the returned list holds at least one ending_win node, whatever the
\* input.
C2_SomeWinEnding ==
    Returned => \E i \in DOMAIN nodes : nodes[i].node_type = "ending_win"

\* C3: every returned node has the id "section_" + section_number and is of
\* type normal exactly when it has choices.
C3_IdAndType ==
    Returned =>
        \A i \in DOMAIN nodes :
            /\ nodes[i].id = [prefix |-> "section_", num |-> nodes[i].section_number]
            /\ (nodes[i].node_type = "normal") <=> (nodes[i].choices # <<>>)

\* Assembled nodes, a stub and a node with a remapped destination are
\* returned together.
C3_Witness ==
    /\ pc = "built"
    /\ {"remapped", "stub"} \subseteq LogKinds
    /\ \E i \in DOMAIN nodes : nodes[i].choices # <<>>
    /\ \E i \in DOMAIN nodes : nodes[i].section_number \in Stubbed

\* C4: a dangling choice with an existing section within distance 2 of its
\* destination D is remapped to the one existing section that is closest to
\* D and, at equal distance, the smaller; whatever the order in which the
\* set of existing sections is listed.
C4_RemapNearest ==
    [][ (pc = "repair" /\ Dangling # {}) =>
          LET source == order[NextDangling[1]]
              j == NextDangling[2]
              D == parsed[source].choices[j].destination
              within == { n \in existing_sections : Abs(n - D) <= 2 }
          IN within # {} =>
               \E r \in within :
                   /\ \A n \in within \ {r} :
                        \/ Abs(r - D) < Abs(n - D)
                        \/ (Abs(r - D) = Abs(n - D) /\ r < n)
                   /\ parsed'[source].choices[j].destination = r
                   /\ DOMAIN parsed' = DOMAIN parsed ]_vars

\* A remap was decided on a tie: the section chosen and a larger one were
\* at the same distance from the destination.
C4_Witness ==
    \E i \in 1..Len(link_changes) :
        /\ link_changes[i].kind = "remapped"
        /\ link_changes[i].remap < link_changes[i].destination
        /\ (2 * link_changes[i].destination - link_changes[i].remap) \in existing_sections

\* C5: the repair pass creates a stub only for the destination D of the
\* dangling choice it stands at, only when no section of the current node
\* set (stubs made earlier included) is within distance 2 of D, and the
\* stub's section number is D.
C5_StubOnlyFarFromAll ==
    [][ pc = "repair" =>
          \A d \in DOMAIN parsed' \ DOMAIN parsed :
              /\ Dangling # {}
              /\ d = parsed[order[NextDangling[1]]].choices[NextDangling[2]].destination
              /\ \A n \in DOMAIN parsed : Abs(n - d) > 2
              /\ parsed'[d].section_number = d ]_vars

\* A stub was made, and a later dangling choice was remapped to it: the
\* stub counted as a section of the node set.
C5_Witness ==
    /\ pc = "repair"
    /\ \E i, k \in 1..Len(link_changes) :
         /\ i < k
         /\ link_changes[i].kind = "stub"
         /\ link_changes[k].kind = "remapped"
         /\ link_changes[k].remap = link_changes[i].destination

\* C6 as stated: the returned node of every stub is of type ending_neutral,
\* has no choices and has the placeholder text of its section.
C6_StubIsNeutral ==
    Returned =>
        \A d \in Stubbed :
            \E i \in DOMAIN nodes :
                /\ nodes[i].section_number = d
                /\ nodes[i].node_type = "ending_neutral"
                /\ nodes[i].choices = <<>>
                /\ nodes[i].text = [kind |-> "placeholder", sec |-> d, terms |-> {}]

\* C6, amended: the returned node of every stub has no choices and the
\* placeholder text of its section; it is of type ending_neutral, or it is
\* the one ending_win node of the list, promoted because no node was a win
\* ending after repair.
C6_StubIsNeutralOrPromoted ==
    Returned =>
        \A d \in Stubbed :
            \E i \in DOMAIN nodes :
                /\ nodes[i].section_number = d
                /\ nodes[i].choices = <<>>
                /\ nodes[i].text = [kind |-> "placeholder", sec |-> d, terms |-> {}]
                /\ \/ nodes[i].node_type = "ending_neutral"
                   \/ /\ nodes[i].node_type = "ending_win"
                      /\ \A k \in DOMAIN nodes \ {i} : nodes[k].node_type # "ending_win"
                      /\ \A n \in DOMAIN parsed : parsed[n].node_type # "ending_win"

\* A stub is returned as the win ending.
C6_Witness ==
    /\ pc = "built"
    /\ \E i \in DOMAIN nodes :
         /\ nodes[i].section_number \in Stubbed
         /\ nodes[i].node_type = "ending_win"

\* The type of section n after link repair.
TypeAfterRepair(n) ==
    IF parsed[n].choices # <<>> THEN "normal" ELSE parsed[n].node_type

\* The sections that are ending_neutral after link repair.
NeutralAfterRepair == { n \in DOMAIN parsed : TypeAfterRepair(n) = "ending_neutral" }

C8_EntryFirstThenAscending ==
    Returned =>
        /\ \A i, k \in DOMAIN nodes :
             nodes[i].section_number = nodes[k].section_number => i = k
        /\ \A i \in DOMAIN nodes :
             \/ nodes[1].section_number = 1
             \/ (/\ nodes[i].section_number # 1
                 /\ nodes[1].section_number <= nodes[i].section_number)
        /\ \A i \in 2..(Len(nodes) - 1) :
             nodes[i].section_number < nodes[i + 1].section_number

\* Section 1, another assembled section and a stub are returned.
C8_Witness ==
    /\ pc = "built"
    /\ Len(nodes) >= 3
    /\ nodes[1].section_number = 1
    /\ \E i \in DOMAIN nodes : nodes[i].section_number \in Stubbed

\* C9: no returned node has two choices with the same normalized label and
\* the same `next`.
C9_NoDuplicateChoice ==
    Returned =>
        \A i \in DOMAIN nodes : \A j, k \in DOMAIN nodes[i].choices :
            (/\ normalize_choice_text(nodes[i].choices[j].text)
                  = normalize_choice_text(nodes[i].choices[k].text)
             /\ nodes[i].choices[j].next = nodes[i].choices[k].next)
            => j = k

Appended == SubSeq(link_changes', Len(link_changes) + 1, Len(link_changes'))

\* The choices whose destination a step changes.
Redirected ==
    { p \in (DOMAIN parsed) \X (1..MaxChoices) :
        /\ p[2] <= Len(parsed[p[1]].choices)
        /\ parsed'[p[1]].choices[p[2]].destination
              # parsed[p[1]].choices[p[2]].destination }

ClauseDestinations ==
    [ i \in 1..Len(raw_text) |->
        LET match == MatchSentence(raw_text[i])
        IN IF match.matched THEN token_to_int(match.token) ELSE NoInt ]

\* The sentences that hold a clause with a destination in [1, 500] that no
\* earlier such clause has.
FirstAppearances(d) ==
    { i \in DOMAIN d :
        /\ d[i].ok
        /\ d[i].value \in 1..500
        /\ \A k \in 1..(i - 1) : d[k] # d[i] }

\* C11: extract_choices returns at most 4 pairs, their destinations pairwise
\* distinct and within [1, 500]; they are the destinations of the first 4
\* clauses that bring a new valid destination, in the order of the text, so
\* that a repeated destination takes no slot and an unparseable or
\* out-of-range token does not stop the scan.
C11_FirstFourDistinctInRange ==
    pc = "returned" =>
        LET d == ClauseDestinations
            firsts == FirstAppearances(d)
        IN /\ Len(found) <= 4
           /\ \A a, b \in 1..Len(found) :
                a # b => found[a].destination # found[b].destination
           /\ \A a \in 1..Len(found) : found[a].destination \in 1..500
           /\ Len(found) = Min(4, Cardinality(firsts))
           /\ \A a \in 1..Len(found) :
                \E i \in firsts :
                   /\ Cardinality({ k \in firsts : k < i }) = a - 1
                   /\ found[a].destination = d[i].value

\* The scan has filled the 4 slots with its last sentence although a clause
\* before it repeated a destination.
C11_Witness ==
    /\ pc = "returned"
    /\ Len(found) = 4
    /\ cursor \in FirstAppearances(ClauseDestinations)
    /\ \E i \in 1..cursor :
         /\ ClauseDestinations[i].ok
         /\ ClauseDestinations[i].value \in 1..500
         /\ i \notin FirstAppearances(ClauseDestinations)

\* Scenario A: "You reach a fork. Turn to 12 if you continue. Turn to 12 if
\* you continue."
ScenarioA ==
    << <<"you", "reach", "a", "fork">>,
       <<"turn", "to", "12", "if", "you", "continue">>,
       <<"turn", "to", "12", "if", "you", "continue">> >>

\* C12: for the text of Scenario A extract_choices yields exactly one choice,
\* and its destination is 12.
C12_ScenarioAYieldsTwelve ==
    (pc = "returned" /\ raw_text = ScenarioA) =>
        (Len(found) = 1 /\ found[1].destination = 12)

(***************************************************************************)
(* lint_story: the story file, its nodes and the command line.             *)
(***************************************************************************)
MaxListed == 5

MaxNodes == 3

MaxLinks == 3

\* `--min-reachable-ratio`, default 0.15, and `--max-noise-ratio`, default
\* 0.03: both in hundredths.
DefaultMinReachable == 15

DefaultMaxNoise == 3

\* `node["choices"] = unique[:4]`
MaxKept == 4

\* A text as max_noise_ratio reads it: its length and the number of its
\* characters outside the allowed set.
TextStat(len, bad) == [len |-> len, bad |-> bad]

LintTexts == { TextStat(0, 0), TextStat(10, 0), TextStat(10, 1) }

LintNode(id, text, choices) == [id |-> id, text |-> text, choices |-> choices]

Link(label, next) == [text |-> label, next |-> next]

\* The file at story_path.
MissingStore == [kind |-> "missing", nodes |-> <<>>]

InvalidStore == [kind |-> "invalid_json", nodes |-> <<>>]

NotListStore == [kind |-> "not_list", nodes |-> <<>>]

ListStore(ns) == [kind |-> "list", nodes |-> ns]

\* The choices of the nodes that are listed for their choices.
ListedChoices ==
    { Link(Label("Go north", 0), SectionId(1)),
      Link(Label("go north.", 0), SectionId(1)),
      Link(Label("Go north", 0), SectionId(2)),
      Link(Label("Go south", 0), SectionId(1)),
      Link(Label("Go south", 0), SectionId(2)),
      Link(Label("Go south", 0), SectionId(3)) }

\* The records of a list from the last to the first.
Reversed(ns) == [i \in DOMAIN ns |-> ns[Len(ns) + 1 - i]]

\* The graphs of MaxNodes nodes at most and MaxLinks choices at most, the
\* nodes but section_1 with a clean text; the file lists them by ascending
\* id or the other way round.
RECURSIVE WithLinks(_, _, _, _, _)
WithLinks(s, built, i, n, k) ==
    IF i > n THEN s = ListStore(built) \/ s = ListStore(Reversed(built))
    ELSE \E j \in 0..k : \E targets \in [1..j -> 1..(n + 1)] :
           \E text \in (IF i = 1 THEN LintTexts ELSE {TextStat(10, 0)}) :
             WithLinks(s,
                       Append(built,
                              LintNode(SectionId(i), text,
                                       [c \in 1..j |->
                                          Link(Label("Go north", 0),
                                               SectionId(targets[c]))])),
                       i + 1, n, k - j)

\* The stores of the model.
StoreInputs(s) ==
    \/ s \in {MissingStore, InvalidStore, NotListStore}
    \/ \E n \in 0..MaxListed : \E choices \in [1..n -> ListedChoices] :
         s = ListStore(<<LintNode(SectionId(1), TextStat(10, 0), choices)>>)
    \/ \E n \in 0..MaxNodes : WithLinks(s, <<>>, 1, n, MaxLinks)

\* The command lines of the model.
ArgInputs ==
    [ fix : BOOLEAN,
      min_reachable_ratio : {DefaultMinReachable, 100},
      max_noise_ratio : {DefaultMaxNoise} ]

(***************************************************************************)
(* lint_story: choice_duplicates and fix_duplicate_choices (lines 19-49).  *)
(***************************************************************************)
\* The key without normalize_choice_text.
raw_key(choice) == <<choice.text, choice.next>>

\* Line 26: the key of choice_duplicates.
dup_key(choice) == <<normalize_choice_text(choice.text), choice.next>>

\* Line 42: the key of fix_duplicate_choices.
fix_key(choice) == <<normalize_choice_text(choice.text), choice.next>>

\* The choices of a node whose key an earlier choice of the node has.
NodeDuplicates(node) ==
    SelectSeq([j \in DOMAIN node.choices |->
                 [ id |-> node.id, text |-> node.choices[j].text,
                   next |-> node.choices[j].next,
                   dup |-> \E k \in 1..(j - 1) :
                             dup_key(node.choices[k]) = dup_key(node.choices[j]) ]],
              LAMBDA d : d.dup)

RECURSIVE choice_duplicates(_)
choice_duplicates(ns) ==
    IF ns = <<>> THEN <<>>
    ELSE NodeDuplicates(Head(ns)) \o choice_duplicates(Tail(ns))

\* Lines 37-47: the choices kept, in order.
RECURSIVE Unique(_, _)
Unique(choices, seen) ==
    IF choices = <<>> THEN <<>>
    ELSE IF fix_key(Head(choices)) \in seen THEN Unique(Tail(choices), seen)
    ELSE <<Head(choices)>> \o Unique(Tail(choices), seen \cup {fix_key(Head(choices))})

\* fix_duplicate_choices: the list as the call leaves it, and what it returns.
RECURSIVE fix_duplicate_choices(_)
fix_duplicate_choices(ns) ==
    IF ns = <<>> THEN [nodes |-> <<>>, removed |-> 0]
    ELSE LET node == Head(ns)
             unique == Unique(node.choices, {})
             rest == fix_duplicate_choices(Tail(ns))
         IN [ nodes |-> <<[node EXCEPT !.choices = Take(unique, MaxKept)]>>
                        \o rest.nodes,
              removed |-> (Len(node.choices) - Len(unique)) + rest.removed ]

(***************************************************************************)
(* lint_story: reachable_ratio and max_noise_ratio (lines 52-87).          *)
(***************************************************************************)
\* Every `next` of the node, in the node set or not.
all_targets(node, idset) ==
    [j \in DOMAIN node.choices |-> node.choices[j].next]

\* [c.get("next") for c in n.get("choices", []) if c.get("next") in idset]
graph_targets(node, idset) ==
    SelectSeq([j \in DOMAIN node.choices |-> node.choices[j].next],
              LAMBDA nxt : nxt \in idset)

\* graph.get(cur, []): the dict comprehension keeps the last node of an id.
graph_get(ns, cur) ==
    LET holders == { i \in DOMAIN ns : ns[i].id = cur }
    IN IF holders = {} THEN <<>>
       ELSE graph_targets(ns[CHOOSE i \in holders : \A k \in holders : k <= i],
                          { ns[i].id : i \in DOMAIN ns })

\* for nxt in graph.get(cur, []): if nxt not in seen: ...
RECURSIVE Visit(_, _)
Visit(targets, state) ==
    IF targets = <<>> THEN state
    ELSE IF Head(targets) \in state.seen THEN Visit(Tail(targets), state)
    ELSE Visit(Tail(targets),
               [q |-> Append(state.q, Head(targets)),
                seen |-> state.seen \cup {Head(targets)}])

\* while q: cur = q.popleft() ...
RECURSIVE Bfs(_, _)
Bfs(ns, state) ==
    IF state.q = <<>> THEN state.seen
    ELSE Bfs(ns, Visit(graph_get(ns, Head(state.q)),
                       [q |-> Tail(state.q), seen |-> state.seen]))

\* reachable_ratio: (len(seen), len(nodes)); the ratio is their quotient,
\* 0.0 for the empty list.
reachable_ratio(ns) ==
    IF ns = <<>> THEN [reachable |-> 0, total |-> 0]
    ELSE [ reachable |-> Cardinality(Bfs(ns, [q |-> <<ns[1].id>>, seen |-> {ns[1].id}])),
           total |-> Len(ns) ]

\* ratio <= threshold.
at_most(num, den, hundredths) == num * 100 <= hundredths * den

\* ratio < threshold, the ratio num / den (0.0 if den = 0), the threshold in
\* hundredths.
below(num, den, hundredths) ==
    IF den = 0 THEN 0 < hundredths ELSE num * 100 < hundredths * den

\* ratio > threshold.
above(num, den, hundredths) ==
    IF den = 0 THEN FALSE ELSE num * 100 > hundredths * den

\* max_noise_ratio: the text with the greatest bad / len, the first of them.
RECURSIVE max_noise_ratio(_, _)
max_noise_ratio(ns, best) ==
    IF ns = <<>> THEN best
    ELSE LET text == Head(ns).text
         IN IF text.len = 0 THEN max_noise_ratio(Tail(ns), best)
            ELSE IF text.bad * best.len > best.bad * text.len
                 THEN max_noise_ratio(Tail(ns), text)
                 ELSE max_noise_ratio(Tail(ns), best)

(***************************************************************************)
(* lint_story.main (lines 99-156).                                         *)
(***************************************************************************)
\* `if args.fix:` left out.
FixAlways(a) == TRUE

\* `if args.fix:`
FixRequested(a) == a.fix

LintInit ==
    /\ StoreInputs(store)
    /\ args \in ArgInputs
    /\ exit_code = 0
    /\ writes = 0
    /\ loaded = <<>>
    /\ node_by_id = <<>>
    /\ pc = "lint"
    /\ BuildIdle
    /\ ExtractIdle
    /\ GameIdle

\* Lines 101-113: the three ways the store fails to load.
LoadFails ==
    /\ pc = "lint"
    /\ store.kind # "list"
    /\ exit_code' = 2
    /\ pc' = "exited"
    /\ UNCHANGED <<store, args, writes, loaded, node_by_id, buildVars, extractVars>>
    /\ UNCHANGED gameVars

\* Line 107: the list is read.
LoadStore ==
    /\ pc = "lint"
    /\ store.kind = "list"
    /\ nodes' = store.nodes
    /\ loaded' = store.nodes
    /\ pc' = "loaded"
    /\ UNCHANGED <<store, args, exit_code, writes, node_by_id, extractVars,
                   pages, existing_by_section, queue, parsed, link_changes,
                   existing_sections, order, pos, report>>
    /\ UNCHANGED gameVars

\* Lines 115-119: fix mode.
FixDuplicates ==
    /\ pc = "loaded"
    /\ IF FixRequested(args)
       THEN LET fixed == fix_duplicate_choices(nodes)
            IN /\ nodes' = fixed.nodes
               /\ IF fixed.removed # 0
                  THEN /\ store' = ListStore(fixed.nodes)
                       /\ writes' = writes + 1
                  ELSE UNCHANGED <<store, writes>>
       ELSE UNCHANGED <<nodes, store, writes>>
    /\ pc' = "fixed"
    /\ UNCHANGED <<args, exit_code, loaded, node_by_id, extractVars,
                   pages, existing_by_section, queue, parsed, link_changes,
                   existing_sections, order, pos, report>>
    /\ UNCHANGED gameVars

\* Lines 121-156: the three checks and the exit code.
RunChecks ==
    /\ pc = "fixed"
    /\ LET duplicates == choice_duplicates(nodes)
           ratio == reachable_ratio(nodes)
           noise == max_noise_ratio(nodes, TextStat(1, 0))
           failed == \/ duplicates # <<>>
                     \/ below(ratio.reachable, ratio.total, args.min_reachable_ratio)
                     \/ above(noise.bad, noise.len, args.max_noise_ratio)
       IN /\ report' = [ duplicates |-> Len(duplicates),
                         reachable |-> ratio.reachable,
                         total |-> ratio.total,
                         noise |-> noise ]
          /\ exit_code' = IF failed THEN 1 ELSE 0
    /\ pc' = "exited"
    /\ UNCHANGED <<store, args, writes, loaded, node_by_id, extractVars,
                   pages, existing_by_section, queue, parsed, link_changes,
                   existing_sections, order, pos, nodes>>
    /\ UNCHANGED gameVars

LintNext ==
    \/ LoadFails
    \/ LoadStore
    \/ FixDuplicates
    \/ RunChecks

LintSpec == LintInit /\ [][LintNext]_vars

(***************************************************************************)
(* Properties of lint_story.                                               *)
(***************************************************************************)
\* Scenario E: one node, two choices with the normalized label "go north"
\* and the same destination.
ScenarioE ==
    << LintNode(SectionId(1), TextStat(10, 0),
                << Link(Label("Go north", 0), SectionId(1)),
                   Link(Label("go north.", 0), SectionId(1)) >>) >>

\* C13: once fix_duplicate_choices has run on a node list, choice_duplicates
\* reports nothing for it, and a second call removes 0 choices and leaves
\* every node as it is; the list of Scenario E has 1 duplicate before.
C13_FixIsIdempotent ==
    (pc \in {"fixed", "exited"} /\ store.kind = "list" /\ args.fix) =>
        /\ choice_duplicates(nodes) = <<>>
        /\ fix_duplicate_choices(nodes).removed = 0
        /\ fix_duplicate_choices(nodes).nodes = nodes
        /\ loaded = ScenarioE => Len(choice_duplicates(loaded)) = 1

\* Fix mode has run on Scenario E: one choice is left, none is reported.
C13_Witness ==
    /\ pc = "exited"
    /\ args.fix
    /\ loaded = ScenarioE
    /\ Len(nodes[1].choices) = 1
    /\ report.duplicates = 0

\* C14: after main has run in fix mode on a store that loads, the file
\* holds the list the checks ran on, every node of it with 4 choices at
\* most and no two of the same (normalized label, next); and the file was
\* written if and only if the fix changed a node.
C14_StoreIsCheckedList ==
    (pc = "exited" /\ store.kind = "list" /\ args.fix) =>
        /\ store.nodes = nodes
        /\ \A i \in DOMAIN store.nodes :
             /\ Len(store.nodes[i].choices) <= 4
             /\ \A j, k \in DOMAIN store.nodes[i].choices :
                  (j # k) =>
                     \/ normalize_choice_text(store.nodes[i].choices[j].text)
                          # normalize_choice_text(store.nodes[i].choices[k].text)
                     \/ store.nodes[i].choices[j].next # store.nodes[i].choices[k].next
        /\ (writes > 0) <=> (nodes # loaded)

\* C15: a step of main changes the file only if the fix flag is given and
\* the store is a list.
C15_WritesOnlyInFixMode ==
    [][ (~args.fix \/ store.kind # "list") => (store' = store /\ writes' = writes) ]_vars

\* main has reported duplicates without the fix flag and has not written.
C15_Witness ==
    /\ pc = "exited"
    /\ ~args.fix
    /\ exit_code = 1
    /\ report.duplicates > 0
    /\ writes = 0
    /\ store = ListStore(loaded)

\* The ids that are reached from the first node along `next` edges to ids of
\* the list.
RECURSIVE Closure(_, _)
Closure(ns, S) ==
    LET ids == { ns[i].id : i \in DOMAIN ns }
        T == S \cup ({ ns[i].choices[j].next :
                         <<i, j>> \in { p \in (DOMAIN ns) \X (1..MaxListed) :
                                          /\ ns[p[1]].id \in S
                                          /\ p[2] <= Len(ns[p[1]].choices) } }
                     \cap ids)
    IN IF T = S THEN S ELSE Closure(ns, T)

Reached(ns) == IF ns = <<>> THEN {} ELSE Closure(ns, {ns[1].id})

\* The three checks, on a list.
DuplicateFree(ns) ==
    \A i \in DOMAIN ns : \A j, k \in DOMAIN ns[i].choices :
        (j < k) =>
           \/ normalize_choice_text(ns[i].choices[j].text)
                # normalize_choice_text(ns[i].choices[k].text)
           \/ ns[i].choices[j].next # ns[i].choices[k].next

ReachableEnough(ns, hundredths) ==
    IF ns = <<>> THEN hundredths <= 0
    ELSE Cardinality(Reached(ns)) * 100 >= hundredths * Len(ns)

QuietEnough(ns, hundredths) ==
    \A i \in DOMAIN ns :
        ns[i].text.len > 0 => ns[i].text.bad * 100 <= hundredths * ns[i].text.len

SingleChain(ns) ==
    \A i \in 1..(Len(ns) - 1) :
        \E j \in DOMAIN ns[i].choices : ns[i].choices[j].next = ns[i + 1].id

\* C17: reachable_ratio counts the nodes reached from the first one along
\* edges to ids of the list, and all nodes; the ratio is 1.0 on a chain
\* through every node, and (0.0, 0, 0) on the empty list.
C17_ReachableRatio ==
    (pc = "exited" /\ store.kind = "list") =>
        /\ report.total = Len(nodes)
        /\ report.reachable = Cardinality(Reached(nodes))
        /\ (nodes # <<>> /\ SingleChain(nodes)) => report.reachable = report.total
        /\ nodes = <<>> => (report.reachable = 0 /\ report.total = 0)

\* The first node has an edge to an id outside the list and one into it, and
\* a node of the list is not reached.
C17_Witness ==
    /\ pc = "exited"
    /\ store.kind = "list"
    /\ Len(nodes) = 3
    /\ report.reachable = 2
    /\ \E j \in DOMAIN nodes[1].choices :
         nodes[1].choices[j].next \notin { nodes[i].id : i \in DOMAIN nodes }

(***************************************************************************)
(* story.StoryEngine: load, get_entry_node, get_node and node_exists       *)
(* (lines 30-59, 107-131).  Of a node the id and the section number are    *)
(* kept; every element of a stored list is a dict.                         *)
(***************************************************************************)
MaxStored == 3

\* An id that is not of the form section_<n>.
NamedId(name) == [prefix |-> name, num |-> 0]

\* The id that is absent or blank.
NoId == NamedId("")

\* A stored node; section_number 0: absent, or not a positive integer.
RawNode(id, section_number) == [id |-> id, section_number |-> section_number]

RawIds == { NoId, NamedId("intro"), SectionId(1), SectionId(2) }

RawNumbers == {0, 1, 2, 5}

RawNodes == { RawNode(id, n) : id \in RawIds, n \in RawNumbers }

\* The ids a query may name.
AskedIds == { NamedId("intro"), SectionId(0), SectionId(1), SectionId(2), SectionId(5) }

\* _default_story()
default_story == << RawNode(SectionId(1), 1) >>

\* _normalize_node, lines 50-58 and 108-109.
normalize_node(raw) ==
    LET node_id == IF raw.id # NoId THEN raw.id
                   ELSE IF raw.section_number > 0 THEN SectionId(raw.section_number)
                   ELSE SectionId(0)
        section_number == IF raw.section_number <= 0 /\ IsSectionId(node_id)
                          THEN node_id.num
                          ELSE raw.section_number
    IN [ id |-> node_id,
         section_number |-> IF section_number > 0 THEN section_number ELSE 0 ]

\* The place of an id among the ids of the model as strings compare.
IdRank(id) == IF IsSectionId(id) THEN 1 + id.num ELSE 0

\* key=lambda n: (n.get("section_number", 10**9), n.get("id", ""))
engine_key(node) == <<node.section_number, IdRank(node.id)>>

\* Lines 38-44: the nodes load keeps, before the sort.
kept_nodes(s) ==
    IF s.kind # "list" \/ s.nodes = <<>> THEN default_story
    ELSE [i \in DOMAIN s.nodes |-> normalize_node(s.nodes[i])]

\* {node["id"]: node for node in self.nodes}: the last node of an id.
index_by_id(ns) ==
    [ id \in { ns[i].id : i \in DOMAIN ns } |->
        ns[CHOOSE i \in DOMAIN ns :
             ns[i].id = id /\ \A k \in DOMAIN ns : ns[k].id = id => k <= i] ]

\* dict.get returning None.
NoNode == [id |-> NoId, section_number |-> 0]

get_node(by_id, node_id) ==
    IF node_id \in DOMAIN by_id THEN by_id[node_id] ELSE NoNode

node_exists(by_id, node_id) == node_id \in DOMAIN by_id

get_entry_node(by_id, ns) ==
    IF SectionId(1) \in DOMAIN by_id THEN by_id[SectionId(1)]
    ELSE IF ns # <<>> THEN ns[1]
    ELSE default_story[1]

EngineInit ==
    /\ \/ store \in {MissingStore, InvalidStore, NotListStore}
       \/ \E n \in 0..MaxStored : \E ns \in [1..n -> RawNodes] : store = ListStore(ns)
    /\ args = <<>>
    /\ exit_code = 0
    /\ writes = 0
    /\ loaded = <<>>
    /\ node_by_id = <<>>
    /\ pc = "engine"
    /\ BuildIdle
    /\ ExtractIdle
    /\ GameIdle

\* StoryEngine.load (lines 30-47).
EngineLoad ==
    /\ pc = "engine"
    /\ LET ns == kept_nodes(store)
       IN /\ node_by_id' = index_by_id(ns)
          /\ nodes' = Sort(ns, [i \in DOMAIN ns |-> engine_key(ns[i])])
    /\ pc' = "ready"
    /\ UNCHANGED <<store, args, exit_code, writes, loaded, extractVars,
                   pages, existing_by_section, queue, parsed, link_changes,
                   existing_sections, order, pos, report>>
    /\ UNCHANGED gameVars

\* A call of get_entry_node; report holds the call and what it returned.
GetEntryNode ==
    /\ pc = "ready"
    /\ report' = [ op |-> "get_entry_node", asked |-> NoId,
                   node |-> get_entry_node(node_by_id, nodes), exists |-> TRUE ]
    /\ pc' = "served"
    /\ UNCHANGED <<storeVars, extractVars,
                   pages, existing_by_section, queue, parsed, link_changes,
                   existing_sections, order, pos, nodes>>
    /\ UNCHANGED gameVars

\* A call of get_node.
GetNode ==
    /\ pc = "ready"
    /\ \E node_id \in AskedIds :
         report' = [ op |-> "get_node", asked |-> node_id,
                     node |-> get_node(node_by_id, node_id),
                     exists |-> get_node(node_by_id, node_id) # NoNode ]
    /\ pc' = "served"
    /\ UNCHANGED <<storeVars, extractVars,
                   pages, existing_by_section, queue, parsed, link_changes,
                   existing_sections, order, pos, nodes>>
    /\ UNCHANGED gameVars

\* A call of node_exists.
NodeExists ==
    /\ pc = "ready"
    /\ \E node_id \in AskedIds :
         report' = [ op |-> "node_exists", asked |-> node_id, node |-> NoNode,
                     exists |-> node_exists(node_by_id, node_id) ]
    /\ pc' = "served"
    /\ UNCHANGED <<storeVars, extractVars,
                   pages, existing_by_section, queue, parsed, link_changes,
                   existing_sections, order, pos, nodes>>
    /\ UNCHANGED gameVars

EngineNext ==
    \/ EngineLoad
    \/ GetEntryNode
    \/ GetNode
    \/ NodeExists

EngineSpec == EngineInit /\ [][EngineNext]_vars

(***************************************************************************)
(* Properties of StoryEngine.                                              *)
(***************************************************************************)
\* The section numbers of the loaded nodes.
LoadedNumbers == { nodes[i].section_number : i \in DOMAIN nodes }

\* C18: after load, get_entry_node returns a node of section number 1 if
\* the loaded nodes have one, otherwise a node of the lowest section number;
\* and node_exists(id) is true exactly when get_node(id) returns a node.
C18_EntryIsSectionOne ==
    pc = "served" =>
        /\ report.op = "get_entry_node" =>
             IF 1 \in LoadedNumbers THEN report.node.section_number = 1
             ELSE \A n \in LoadedNumbers : report.node.section_number <= n
        /\ report.op = "node_exists" =>
             (report.exists <=> get_node(node_by_id, report.asked) # NoNode)

(***************************************************************************)
(* validate: auto_fix and main (lines 41-49, 83-181, 216-224).  Of a node  *)
(* the id, the section number, the text, the type and the choices are      *)
(* kept; every id ends in a number, as line 99 requires.                   *)
(***************************************************************************)
MaxFixed == 2

\* The id and the section number of the synthesized win node.
SynthesizedWin == 999

\* A stored node; section_number 0: the key is absent.
FixNode(id, section_number, text, node_type, choices) ==
    [ id |-> id, section_number |-> section_number, text |-> text,
      node_type |-> node_type, choices |-> choices ]

FixIds == { NoId, SectionId(1), SectionId(SynthesizedWin) }

\* The choice lists: none, or one choice to a stored or an absent node.
FixChoiceLists ==
    { <<>> } \cup { << Link(Label("Go north", 0), next) >> :
                      next \in { SectionId(1), SectionId(2), SectionId(SynthesizedWin) } }

\* A type of VALID_NODE_TYPES, or one outside it with a text for
\* infer_node_type to read.
FixTypesAndTexts ==
    { <<t, ProseText({})>> : t \in VALID_NODE_TYPES }
    \cup { <<"bogus", ProseText(T)>> : T \in { {}, {"die"}, {"win"} } }

FixNodes ==
    { FixNode(id, 0, tt[2], tt[1], choices) :
        id \in FixIds, tt \in FixTypesAndTexts, choices \in FixChoiceLists }

validate_death_terms == { "death", "die", "died", "killed", "fail", "failed" }

validate_win_terms == { "win", "won", "escape", "success", "triumph", "victory" }

\* validate.infer_node_type (lines 41-49).
validate_infer_node_type(node) ==
    IF node.choices # <<>> THEN "normal"
    ELSE IF \E k \in validate_death_terms : Contains(node.text, k) THEN "ending_death"
    ELSE IF \E k \in validate_win_terms : Contains(node.text, k) THEN "ending_win"
    ELSE "ending_neutral"

\* Lines 85-93: the first node of every id; a node without id is dropped.
RECURSIVE dedupe_ids(_, _)
dedupe_ids(ns, seen) ==
    IF ns = <<>> THEN <<>>
    ELSE IF Head(ns).id = NoId \/ Head(ns).id \in seen
         THEN dedupe_ids(Tail(ns), seen)
         ELSE <<Head(ns)>> \o dedupe_ids(Tail(ns), seen \cup {Head(ns).id})

\* Lines 98-118: the defaults and the type of one node.
with_defaults(node) ==
    LET numbered == IF node.section_number = 0
                    THEN [node EXCEPT !.section_number = node.id.num]
                    ELSE node
    IN IF numbered.node_type \notin VALID_NODE_TYPES
       THEN [numbered EXCEPT !.node_type = validate_infer_node_type(numbered)]
       ELSE IF numbered.choices # <<>>
            THEN [numbered EXCEPT !.node_type = "normal"]
            ELSE numbered

\* Lines 121-126: the `next` values that name no node.
missing_ids(ns) ==
    UNION { { ns[i].choices[j].next : j \in DOMAIN ns[i].choices } : i \in DOMAIN ns }
    \ { ns[i].id : i \in DOMAIN ns }

\* Lines 140-150.
fix_stub(missing_id) ==
    FixNode(missing_id, missing_id.num, Placeholder(missing_id.num),
            "ending_neutral", <<>>)

\* Lines 131-152: a stub per missing id, in the order of sorted(missing_ids).
with_stubs(ns) ==
    LET listed == SortedSeq({ id.num : id \in missing_ids(ns) })
    IN ns \o [k \in DOMAIN listed |-> fix_stub(SectionId(listed[k]))]

\* Lines 163-173.
synthesized_win ==
    FixNode(SectionId(SynthesizedWin), SynthesizedWin,
            ProseText({"escape", "victory"}), "ending_win", <<>>)

\* Lines 155-174.
guarantee_win(ns) ==
    LET convertible == { i \in DOMAIN ns :
                           ns[i].node_type = "ending_neutral" /\ ns[i].choices = <<>> }
    IN IF \E i \in DOMAIN ns : ns[i].node_type = "ending_win" THEN ns
       ELSE IF convertible # {}
            THEN [ns EXCEPT ![First(convertible)].node_type = "ending_win"]
            ELSE Append(ns, synthesized_win)

\* Lines 177-179.
sort_nodes(ns) ==
    LET bynum == Sort(ns, [i \in DOMAIN ns |-> section_key(ns[i])])
    IN IF \E i \in DOMAIN bynum : bynum[i].section_number = 1
       THEN Sort(bynum, [i \in DOMAIN bynum |-> entry_first_key(bynum[i])])
       ELSE bynum

auto_fix(ns) ==
    LET deduped == dedupe_ids(ns, {})
        typed == [i \in DOMAIN deduped |-> with_defaults(deduped[i])]
    IN sort_nodes(guarantee_win(with_stubs(typed)))

ValidateInit ==
    /\ \/ store = MissingStore
       \/ \E n \in 0..MaxFixed : \E ns \in [1..n -> FixNodes] : store = ListStore(ns)
    /\ args = <<>>
    /\ exit_code = 0
    /\ writes = 0
    /\ loaded = <<>>
    /\ node_by_id = <<>>
    /\ pc = "validate"
    /\ BuildIdle
    /\ ExtractIdle
    /\ GameIdle

\* Lines 217-218: FileNotFoundError.
ValidateRaises ==
    /\ pc = "validate"
    /\ store.kind = "missing"
    /\ pc' = "raised"
    /\ UNCHANGED <<storeVars, extractVars, buildVars>>
    /\ UNCHANGED gameVars

\* Lines 220-224: the list is fixed and written back.
ValidateMain ==
    /\ pc = "validate"
    /\ store.kind = "list"
    /\ loaded' = store.nodes
    /\ nodes' = auto_fix(store.nodes)
    /\ store' = ListStore(auto_fix(store.nodes))
    /\ writes' = writes + 1
    /\ pc' = "validated"
    /\ UNCHANGED <<args, exit_code, node_by_id, extractVars,
                   pages, existing_by_section, queue, parsed, link_changes,
                   existing_sections, order, pos, report>>
    /\ UNCHANGED gameVars

ValidateNext ==
    \/ ValidateRaises
    \/ ValidateMain

ValidateSpec == ValidateInit /\ [][ValidateNext]_vars

(***************************************************************************)
(* Properties of validate.auto_fix.                                        *)
(***************************************************************************)
\* C19: every node auto_fix returns is typed normal if and only if it has a
\* choice.
C19_NormalIffChoices ==
    pc = "validated" =>
        \A i \in DOMAIN nodes :
            (nodes[i].node_type = "normal") <=> (nodes[i].choices # <<>>)

\* C20: the nodes auto_fix returns have pairwise distinct ids.
C20_DistinctIds ==
    pc = "validated" =>
        \A i, j \in DOMAIN nodes : (i # j) => (nodes[i].id # nodes[j].id)

(***************************************************************************)
(* Further properties of build_story.                                      *)
(***************************************************************************)
\* C21: every choice destination of every payload extract_section_payload
\* produces lies in the range extract_choices accepts, and so does every
\* stub the repair pass creates.
C21_PayloadDestinationsInRange ==
    /\ \A n \in DOMAIN parsed : \A j \in DOMAIN parsed[n].choices :
          parsed[n].choices[j].destination \in Sections
    /\ \A k \in DOMAIN link_changes :
          link_changes[k].kind = "stub" => link_changes[k].destination \in Sections

\* C22: the sections assembled from the source (the visited map without the
\* stubs of the repair pass) never number more than the safety cap.
C22_AssembledWithinCap ==
    Cardinality(DOMAIN parsed \ Stubbed) <= SafetyCap

\* C23: build_story terminates: from every page source and prior snapshot the
\* frontier loop, the second pass and the repair pass finish and the node list
\* is returned.
C23_BuildStoryTerminates == <>Returned

\* A run that returned although two sections refer to each other.
C23_Witness ==
    /\ Returned
    /\ \E n \in DOMAIN parsed : \E m \in DOMAIN parsed \ {n} :
          /\ \E c \in Range(parsed[n].choices) : c.destination = m
          /\ \E c \in Range(parsed[m].choices) : c.destination = n

\* The sections, choice destinations and node types of a node list.
Outline(ns) ==
    [ i \in DOMAIN ns |->
        [ section_number |-> ns[i].section_number,
          node_type |-> ns[i].node_type,
          next |-> [j \in DOMAIN ns[i].choices |-> ns[i].choices[j].next] ] ]

\* C24: a run on the story.json the previous run wrote, with the same PDF,
\* returns the node list of the previous run: the same sections, choice
\* destinations and node types.
C24_RerunIsIdempotent ==
    (pc = "built" /\ writes >= 1) => Outline(nodes) = Outline(store)

\* The positions of the ending_neutral nodes of ns whose text holds an
\* affirmative cue.
Cued(ns) ==
    { i \in DOMAIN ns :
        /\ ns[i].node_type = "ending_neutral"
        /\ \E term \in cue_terms : Contains(ns[i].text, term) }

\* C25: when the assembled nodes hold no ending_win and some ending_neutral
\* node's text holds an affirmative cue, the returned list has the
\* lowest-numbered such node as ending_win.
C25_LowestCuedNeutralWins ==
    Returned =>
        LET before == assemble(parsed)
            cued == Cued(before)
        IN ((\A i \in DOMAIN before : before[i].node_type # "ending_win") /\ cued # {})
           => \E i \in cued :
                 /\ \A j \in cued : before[i].section_number <= before[j].section_number
                 /\ nodes[i].node_type = "ending_win"

(***************************************************************************)
(* Further properties of lint_story.                                       *)
(***************************************************************************)
\* The designated entry of a list: section_1 if the list holds it, otherwise
\* the id with the lowest number.
DesignatedEntry(ns) ==
    LET ids == { ns[i].id : i \in DOMAIN ns }
    IN IF SectionId(1) \in ids THEN SectionId(1)
       ELSE CHOOSE id \in ids : \A other \in ids : id.num <= other.num

\* C26: whatever the order of the records, the reachable count is that of
\* the traversal from the designated entry node.
C26_TraversesFromDesignatedEntry ==
    (pc = "exited" /\ store.kind = "list" /\ nodes # <<>>) =>
        report.reachable = Cardinality(Closure(nodes, {DesignatedEntry(nodes)}))

(***************************************************************************)
(* Further properties of the second pass and the frontier.                 *)
(***************************************************************************)
\* The destinations of the visited map's choices that the map does not hold.
Absent ==
    { d \in 0..(MaxSection + 1) :
        /\ d \notin DOMAIN parsed
        /\ \E n \in DOMAIN parsed : \E j \in DOMAIN parsed[n].choices :
              parsed[n].choices[j].destination = d }

\* The repair pass is set up and has not reached a choice yet.
RepairBegins == pc = "repair" /\ pos = <<1, 1>> /\ existing_sections = DOMAIN parsed

\* C27: when the second pass has ended and repair begins, no destination
\* that is absent from the visited map has a page of 80 letters or more.
C27_AbsentMeansNoUsablePage ==
    RepairBegins =>
        \A d \in Absent : d \notin DOMAIN pages \/ pages[d].alpha < UsableAlpha

\* Repair begins after the second pass added a section.
C27_Witness ==
    /\ RepairBegins
    /\ "added" \in LogKinds

\* The sections the frontier starts from.
Seeds ==
    DOMAIN existing_by_section \cup (IF has_usable_page(1) THEN {1} ELSE {})

\* During the main loop the queue holds no section twice and none that is
\* visited.
FrontierIsFresh ==
    pc = "main" =>
        /\ \A i, j \in DOMAIN queue : queue[i] = queue[j] => i = j
        /\ Range(queue) \cap DOMAIN parsed = {}

\* Every visited section is a seed or the destination of a choice of a
\* visited section.
VisitedHasOrigin ==
    \A n \in DOMAIN parsed :
        \/ n \in Seeds
        \/ \E m \in DOMAIN parsed : \E j \in DOMAIN parsed[m].choices :
              parsed[m].choices[j].destination = n

\* C28: throughout the main loop the queue holds no section twice and no
\* visited section; every iteration of the main loop extracts the payload of
\* a section that was not visited, and every round of the second pass only
\* of such sections, one per line it logs; and every visited section is a
\* seed or the destination of a choice of a visited section.
C28_FrontierAndVisited ==
    [][ /\ FrontierIsFresh /\ FrontierIsFresh'
        /\ VisitedHasOrigin /\ VisitedHasOrigin'
        /\ (pc = "main" /\ pc' = "main") =>
              /\ Head(queue) \notin DOMAIN parsed
              /\ DOMAIN parsed' = DOMAIN parsed \cup {Head(queue)}
        /\ (pc = "second" /\ pc' = "second") =>
              /\ DOMAIN parsed \subseteq DOMAIN parsed'
              /\ \A n \in DOMAIN parsed : parsed'[n] = parsed[n]
              /\ Cardinality(DOMAIN parsed' \ DOMAIN parsed)
                   = Len(link_changes') - Len(link_changes) ]_vars

\* The main loop has passed a choice whose destination was queued already,
\* as a seed.
C28_Witness ==
    /\ pc = "main"
    /\ \E n \in DOMAIN parsed : \E j \in DOMAIN parsed[n].choices :
          /\ parsed[n].choices[j].destination \in Range(queue)
          /\ parsed[n].choices[j].destination \in Seeds

(***************************************************************************)
(* What the repair pass leaves alone.                                      *)
(***************************************************************************)
\* C29: a step of the repair pass removes no node of the visited map and
\* keeps each one's text, type, section number, number of choices and
\* labels, and the destination of every choice whose destination exists;
\* the nodes it adds are stubs: ending_neutral, without choices, with the
\* placeholder text.
C29_RepairFrame ==
    [][ (pc = "repair" /\ pc' = "repair") =>
          /\ \A n \in DOMAIN parsed :
               /\ n \in DOMAIN parsed'
               /\ parsed'[n].section_number = parsed[n].section_number
               /\ parsed'[n].text = parsed[n].text
               /\ parsed'[n].node_type = parsed[n].node_type
               /\ Len(parsed'[n].choices) = Len(parsed[n].choices)
               /\ \A j \in DOMAIN parsed[n].choices :
                    /\ parsed'[n].choices[j].text = parsed[n].choices[j].text
                    /\ parsed[n].choices[j].destination \in existing_sections
                         => parsed'[n].choices[j].destination
                              = parsed[n].choices[j].destination
          /\ \A n \in DOMAIN parsed' \ DOMAIN parsed :
               /\ parsed'[n].section_number = n
               /\ parsed'[n].text = Placeholder(n)
               /\ parsed'[n].node_type = "ending_neutral"
               /\ parsed'[n].choices = <<>> ]_vars

\* The repair pass has remapped a choice of a node that has another choice,
\* one that leads elsewhere.
C29_Witness ==
    /\ pc = "repair"
    /\ \E k \in DOMAIN link_changes :
          /\ link_changes[k].kind = "remapped"
          /\ \E j \in DOMAIN parsed[link_changes[k].source].choices :
                parsed[link_changes[k].source].choices[j].destination
                   # link_changes[k].remap
(***************************************************************************)
(* game.Game: the runtime of the game (src/game.py), with                  *)
(* ui.ScreenTransition (src/ui.py, lines 182-231) and player.PlayerState   *)
(* (src/player.py).  Of a player the health, the food and the gold are     *)
(* kept; morale is read by nothing below.  Sound, overlay texts, the       *)
(* journal lines and the drawing are left out.  The menu's LOAD GAME and   *)
(* the S key are left out: no save file is present.  autoplay is off, its  *)
(* default.                                                                *)
(***************************************************************************)
\* ScreenTransition(duration_ms=300), src/game.py line 144.
TransitionDuration == 300

\* PlayerState: health and food at the start, and the clamp's upper end.
FullStat == 100

\* The activations of a game the model follows: each costs one food.
MaxTurns == 3

\* JOURNAL_LIMIT, src/game.py line 33, scaled to the model.
JournalLimit == 3

\* clock.tick(30): the milliseconds a frame may take.
FrameDeltas == {100, 300}

\* STATE_GAME_OVER, STATE_VICTORY, STATE_DATA_ERROR
EndingStates == {"game_over", "victory", "data_error"}

\* An effects object: a delta per stat.
Effects(health, food, gold) == [health |-> health, food |-> food, gold |-> gold]

NoEffects == Effects(0, 0, 0)

\* A choice of a loaded node; requires is the least gold, 0 for none.
GameChoice(next, requires, effects) ==
    [next |-> next, requires |-> requires, effects |-> effects]

\* A loaded node; page_count is the number of pages paginate_text makes.
GameNode(id, node_type, page_count, choices) ==
    [id |-> id, node_type |-> node_type, page_count |-> page_count,
     effects |-> NoEffects, choices |-> choices]

\* story.node_by_id after load: section_1 leads to section_2, to section_3
\* for one gold, to section_9 that is not in the story, and to section_2 by
\* a deadly road; section_2 leads back and on to the winning section_3.
GameStory ==
    [ id \in {SectionId(1), SectionId(2), SectionId(3)} |->
        IF id = SectionId(1) THEN
            GameNode(id, "normal", 2,
                     << GameChoice(SectionId(2), 0, Effects(0, 0, 1)),
                        GameChoice(SectionId(3), 1, NoEffects),
                        GameChoice(SectionId(9), 0, NoEffects),
                        GameChoice(SectionId(2), 0, Effects(0 - FullStat, 0, 0)) >>)
        ELSE IF id = SectionId(2) THEN
            GameNode(id, "normal", 1,
                     << GameChoice(SectionId(1), 0, NoEffects),
                        GameChoice(SectionId(3), 0, NoEffects) >>)
        ELSE GameNode(id, "ending_win", 1, <<>>) ]

\* _choose_random_event: no event (nine times in ten), or "Cold rain soaks
\* your gear and chills you." of DEFAULT_RANDOM_EVENTS.
RandomEvents == { NoEffects, Effects(0 - 5, 0, 0) }

\* player._clamp
clamp(value) == IF value < 0 THEN 0 ELSE IF value > FullStat THEN FullStat ELSE value

\* PlayerState()
NewPlayer == [health |-> FullStat, food |-> FullStat, gold |-> 0]

\* PlayerState.apply_effects: mutate_stat for each stat.
apply_effects(p, effects) ==
    [ health |-> clamp(p.health + effects.health),
      food |-> clamp(p.food + effects.food),
      gold |-> clamp(p.gold + effects.gold) ]

\* PlayerState.apply_upkeep: one food; five health once the food is gone.
apply_upkeep(p) ==
    LET fed == [p EXCEPT !.food = clamp(p.food - 1)]
    IN IF fed.food <= 0 THEN [fed EXCEPT !.health = clamp(fed.health - 5)]
       ELSE fed

\* ScreenTransition at rest.
IdleTransition == [phase |-> "idle", timer_ms |-> 0, midpoint_emitted |-> FALSE]

\* ScreenTransition.start
transition_start(t) == [phase |-> "out", timer_ms |-> 0, midpoint_emitted |-> FALSE]

\* ScreenTransition.update: the transition after the tick, and the tick's
\* midpoint_reached.
transition_update(t, delta_ms) ==
    LET timer == t.timer_ms + delta_ms
    IN IF t.phase = "idle" THEN [t |-> t, midpoint_reached |-> FALSE]
       ELSE IF t.phase = "out" /\ timer >= TransitionDuration
       THEN [ t |-> [phase |-> "in", timer_ms |-> 0, midpoint_emitted |-> TRUE],
              midpoint_reached |-> ~t.midpoint_emitted ]
       ELSE IF t.phase = "in" /\ timer >= TransitionDuration
       THEN [ t |-> [t EXCEPT !.phase = "idle", !.timer_ms = 0],
              midpoint_reached |-> FALSE ]
       ELSE [ t |-> [t EXCEPT !.timer_ms = timer], midpoint_reached |-> FALSE ]

\* StoryEngine.choice_available: a numeric rule is the least value required.
choice_available(choice, p) == p.gold >= choice.requires

\* Game._rebuild_choices, lines 195-208: a row for each of the first four
\* choices.
rebuild_choices(node, p) ==
    [ i \in 1..Min(Len(node.choices), 4) |->
        [ next |-> node.choices[i].next,
          effects |-> node.choices[i].effects,
          locked |-> ~choice_available(node.choices[i], p) ] ]

\* Lines 209-210: the index of the first row that is not locked, or 0.
first_unlocked(rows) ==
    LET unlocked == { i \in DOMAIN rows : ~rows[i].locked }
    IN IF unlocked = {} THEN 0
       ELSE (CHOOSE i \in unlocked : \A k \in unlocked : i <= k) - 1

\* Game._append_visit, lines 183-188: the journal keeps the last entries.
append_visit(visited, id) ==
    LET all == Append(visited, id)
    IN IF Len(all) > JournalLimit
       THEN SubSeq(all, Len(all) - JournalLimit + 1, Len(all))
       ELSE all

\* Game._set_current_node(node_id, apply_node_effects=True,
\* record_visit=True), lines 212-238: what it returns and the fields it
\* leaves behind.
set_current_node(node_id, p, visited, rows, index, page_idx, finished, current) ==
    IF ~node_exists(GameStory, node_id)
    THEN [ ok |-> FALSE, current_node_id |-> current, visited_node_ids |-> visited,
           player |-> p, current_page_idx |-> page_idx,
           typewriter_finished |-> finished, choice_rows |-> rows,
           choice_cursor |-> index ]
    ELSE LET node == GameStory[node_id]
             after == apply_effects(p, node.effects)
             built == rebuild_choices(node, after)
         IN [ ok |-> TRUE, current_node_id |-> node.id,
              visited_node_ids |-> append_visit(visited, node.id),
              player |-> after, current_page_idx |-> 0,
              typewriter_finished |-> FALSE, choice_rows |-> built,
              choice_cursor |-> first_unlocked(built) ]

\* Game._activate_choice(idx), lines 382-402, with the random event the
\* generator draws: the player, the screen, the pending node and the
\* transition it leaves behind.
activate_choice(idx, rows, p, screen, pending, t, event) ==
    LET same == [player |-> p, game_state |-> screen,
                 pending_node_id |-> pending, transition |-> t]
    IN IF idx < 0 \/ idx >= Len(rows) THEN same
       ELSE IF rows[idx + 1].locked THEN same
       ELSE IF ~node_exists(GameStory, rows[idx + 1].next) THEN same
       ELSE LET paid == apply_upkeep(apply_effects(p, rows[idx + 1].effects))
            IN IF paid.health <= 0
               THEN [same EXCEPT !.player = paid, !.game_state = "game_over"]
               ELSE [ player |-> apply_effects(paid, event),
                      game_state |-> screen,
                      pending_node_id |-> rows[idx + 1].next,
                      transition |-> transition_start(t) ]

\* Game._move_choice_cursor(delta), lines 370-380: the next row that is not
\* locked, or the index where it stood.
RECURSIVE seek_unlocked(_, _, _, _, _)
seek_unlocked(at, rows, delta, left, start) ==
    IF left = 0 THEN start
    ELSE IF ~rows[at + 1].locked THEN at
    ELSE seek_unlocked((at + delta + Len(rows)) % Len(rows), rows, delta, left - 1, start)

move_choice_cursor(index, rows, delta) ==
    IF Len(rows) = 0 THEN index
    ELSE seek_unlocked((index + delta + Len(rows)) % Len(rows), rows, delta,
                       Len(rows), index)

\* Game._resolve_terminal_node, lines 422-439: the screen it leaves.
resolve_terminal_node(node, rows, p, screen) ==
    IF node.node_type = "ending_win" THEN "victory"
    ELSE IF node.node_type \in {"ending_death", "ending_neutral"} THEN "game_over"
    ELSE IF node.node_type = "normal" /\ rows = <<>> THEN "game_over"
    ELSE IF p.health <= 0 THEN "game_over"
    ELSE screen

\* len(self.current_pages) of the current node.
page_count(id) == IF id \in DOMAIN GameStory THEN GameStory[id].page_count ELSE 0

\* Game.__init__, lines 120-165: the menu, with the entry node at hand.
GameInit ==
    /\ game_state = "menu"
    /\ running = TRUE
    /\ current_node_id = get_entry_node(GameStory, <<>>).id
    /\ pending_node_id = NoId
    /\ transition = IdleTransition
    /\ typewriter_finished = FALSE
    /\ current_page_idx = 0
    /\ choice_rows = <<>>
    /\ choice_cursor = 0
    /\ player = NewPlayer
    /\ visited_node_ids = <<>>
    /\ pc = "game"
    /\ BuildIdle
    /\ ExtractIdle
    /\ StoreIdle

\* The other programs do not run.
GameFrame == UNCHANGED <<buildVars, extractVars, storeVars>>

\* An activation is followed while the food of the bound lasts.
TurnsLeft == player.food > FullStat - MaxTurns

\* The fields _activate_choice(idx) leaves behind, for some random event.
Activated(idx) ==
    \E event \in RandomEvents :
       LET after == activate_choice(idx, choice_rows, player, game_state,
                                    pending_node_id, transition, event)
       IN /\ player' = after.player
          /\ game_state' = after.game_state
          /\ pending_node_id' = after.pending_node_id
          /\ transition' = after.transition

\* The fields _set_current_node(node_id) leaves behind; the screen is the
\* data error when it returns False.
Installed(node_id, screen) ==
    LET set == set_current_node(node_id, player, visited_node_ids, choice_rows,
                                choice_cursor, current_page_idx,
                                typewriter_finished, current_node_id)
    IN /\ current_node_id' = set.current_node_id
       /\ visited_node_ids' = set.visited_node_ids
       /\ player' = set.player
       /\ current_page_idx' = set.current_page_idx
       /\ typewriter_finished' = set.typewriter_finished
       /\ choice_rows' = set.choice_rows
       /\ choice_cursor' = set.choice_cursor
       /\ game_state' = IF set.ok THEN screen ELSE "data_error"

\* _handle_menu_event, _activate_menu_option (lines 441-471): NEW GAME,
\* LOAD GAME without a save, QUIT.
MenuActivate ==
    /\ pc = "game"
    /\ game_state = "menu"
    /\ \E idx \in 0..2 :
         /\ game_state' = IF idx = 0 THEN "name_entry" ELSE game_state
         /\ running' = IF idx = 2 THEN FALSE ELSE running
    /\ UNCHANGED <<current_node_id, pending_node_id, transition,
                   typewriter_finished, current_page_idx, choice_rows,
                   choice_cursor, player, visited_node_ids, pc>>
    /\ GameFrame

\* _handle_name_event on RETURN: _start_new_game, lines 245-263.
StartNewGame ==
    /\ pc = "game"
    /\ game_state = "name_entry"
    /\ pending_node_id' = NoId
    /\ transition' = [transition EXCEPT !.phase = "idle"]
    /\ LET set == set_current_node(get_entry_node(GameStory, <<>>).id, NewPlayer,
                                   <<>>, choice_rows, choice_cursor,
                                   current_page_idx, typewriter_finished,
                                   current_node_id)
       IN /\ current_node_id' = set.current_node_id
          /\ visited_node_ids' = set.visited_node_ids
          /\ player' = set.player
          /\ current_page_idx' = set.current_page_idx
          /\ typewriter_finished' = set.typewriter_finished
          /\ choice_rows' = set.choice_rows
          /\ choice_cursor' = set.choice_cursor
          /\ game_state' = IF set.ok THEN "gameplay" ELSE "data_error"
    /\ UNCHANGED <<running, pc>>
    /\ GameFrame

\* _handle_events, lines 555-570: ESCAPE on each screen.
KeyEscape ==
    /\ pc = "game"
    /\ running' = IF game_state \in {"menu", "gameplay"} THEN FALSE ELSE running
    /\ game_state' = IF game_state = "name_entry" THEN "menu"
                     ELSE IF game_state = "journal" THEN "gameplay"
                     ELSE IF game_state \in EndingStates THEN "menu"
                     ELSE game_state
    /\ UNCHANGED <<current_node_id, pending_node_id, transition,
                   typewriter_finished, current_page_idx, choice_rows,
                   choice_cursor, player, visited_node_ids, pc>>
    /\ GameFrame

\* _handle_gameplay_event, lines 485-487, and _handle_journal_event: J opens
\* and closes the journal.
KeyJ ==
    /\ pc = "game"
    /\ game_state \in {"gameplay", "journal"}
    /\ game_state' = IF game_state = "gameplay" THEN "journal" ELSE "gameplay"
    /\ UNCHANGED <<running, current_node_id, pending_node_id, transition,
                   typewriter_finished, current_page_idx, choice_rows,
                   choice_cursor, player, visited_node_ids, pc>>
    /\ GameFrame

\* Lines 491-496: UP and DOWN.
KeyUpDown ==
    /\ pc = "game"
    /\ game_state = "gameplay"
    /\ \E delta \in {0 - 1, 1} :
         choice_cursor' = move_choice_cursor(choice_cursor, choice_rows, delta)
    /\ UNCHANGED <<game_state, running, current_node_id, pending_node_id,
                   transition, typewriter_finished, current_page_idx,
                   choice_rows, player, visited_node_ids, pc>>
    /\ GameFrame

\* Lines 497-501: the keys 1 to 4.
KeyDigit ==
    /\ pc = "game"
    /\ game_state = "gameplay"
    /\ TurnsLeft
    /\ \E idx \in 0..3 :
         IF typewriter_finished THEN Activated(idx)
         ELSE UNCHANGED <<player, game_state, pending_node_id, transition>>
    /\ UNCHANGED <<running, current_node_id, typewriter_finished,
                   current_page_idx, choice_rows, choice_cursor,
                   visited_node_ids, pc>>
    /\ GameFrame

\* Lines 502-512: RETURN, ENTER and SPACE.
KeyReturn ==
    /\ pc = "game"
    /\ game_state = "gameplay"
    /\ TurnsLeft
    /\ IF ~typewriter_finished
       THEN /\ typewriter_finished' = TRUE
            /\ UNCHANGED <<current_page_idx, player, game_state,
                           pending_node_id, transition>>
       ELSE IF current_page_idx < page_count(current_node_id) - 1
       THEN /\ current_page_idx' = current_page_idx + 1
            /\ typewriter_finished' = FALSE
            /\ UNCHANGED <<player, game_state, pending_node_id, transition>>
       ELSE IF choice_rows # <<>>
       THEN /\ Activated(choice_cursor)
            /\ UNCHANGED <<typewriter_finished, current_page_idx>>
       ELSE /\ game_state' = resolve_terminal_node(GameStory[current_node_id],
                                                   choice_rows, player, game_state)
            /\ UNCHANGED <<typewriter_finished, current_page_idx, player,
                           pending_node_id, transition>>
    /\ UNCHANGED <<running, current_node_id, choice_rows, choice_cursor,
                   visited_node_ids, pc>>
    /\ GameFrame

\* Lines 513-517: the pointer moves onto a row.
MouseMotion ==
    /\ pc = "game"
    /\ game_state = "gameplay"
    /\ \E idx \in 0..3 :
         choice_cursor' = IF idx < Len(choice_rows) THEN idx ELSE choice_cursor
    /\ UNCHANGED <<game_state, running, current_node_id, pending_node_id,
                   transition, typewriter_finished, current_page_idx,
                   choice_rows, player, visited_node_ids, pc>>
    /\ GameFrame

\* Lines 518-529: the left button, on a row or beside the rows.
MouseButtonDown ==
    /\ pc = "game"
    /\ game_state = "gameplay"
    /\ TurnsLeft
    /\ \E idx \in 0..4 :
         IF ~typewriter_finished
         THEN /\ typewriter_finished' = TRUE
              /\ UNCHANGED <<current_page_idx, player, game_state,
                             pending_node_id, transition>>
         ELSE IF current_page_idx < page_count(current_node_id) - 1
         THEN /\ current_page_idx' = current_page_idx + 1
              /\ typewriter_finished' = FALSE
              /\ UNCHANGED <<player, game_state, pending_node_id, transition>>
         ELSE /\ Activated(idx)
              /\ UNCHANGED <<typewriter_finished, current_page_idx>>
    /\ UNCHANGED <<running, current_node_id, choice_rows, choice_cursor,
                   visited_node_ids, pc>>
    /\ GameFrame

\* _handle_ending_event, lines 543-547.
EndingReturn ==
    /\ pc = "game"
    /\ game_state \in EndingStates
    /\ game_state' = "menu"
    /\ UNCHANGED <<running, current_node_id, pending_node_id, transition,
                   typewriter_finished, current_page_idx, choice_rows,
                   choice_cursor, player, visited_node_ids, pc>>
    /\ GameFrame

\* Game._update(delta_ms), lines 617-649, and the test of run's loop that
\* follows it; the typewriter ends its page in this frame or in a later one.
Update ==
    /\ pc = "game"
    /\ \E delta_ms \in FrameDeltas, done \in BOOLEAN :
         IF transition.phase # "idle"
         THEN LET tick == transition_update(transition, delta_ms)
              IN /\ transition' = tick.t
                 /\ IF tick.midpoint_reached /\ pending_node_id # NoId
                    THEN /\ Installed(pending_node_id, game_state)
                         /\ pending_node_id' = NoId
                    ELSE UNCHANGED <<game_state, current_node_id, pending_node_id,
                                     typewriter_finished, current_page_idx,
                                     choice_rows, choice_cursor, player,
                                     visited_node_ids>>
         ELSE IF game_state = "gameplay"
         THEN /\ typewriter_finished' = (typewriter_finished \/ done)
              /\ game_state' = IF player.health <= 0 THEN "game_over" ELSE game_state
              /\ UNCHANGED <<current_node_id, pending_node_id, transition,
                             current_page_idx, choice_rows, choice_cursor,
                             player, visited_node_ids>>
         ELSE UNCHANGED <<game_state, current_node_id, pending_node_id,
                          transition, typewriter_finished, current_page_idx,
                          choice_rows, choice_cursor, player, visited_node_ids>>
    /\ pc' = IF running THEN "game" ELSE "quit"
    /\ UNCHANGED running
    /\ GameFrame

GameNext ==
    \/ MenuActivate
    \/ StartNewGame
    \/ KeyEscape
    \/ KeyJ
    \/ KeyUpDown
    \/ KeyDigit
    \/ KeyReturn
    \/ MouseMotion
    \/ MouseButtonDown
    \/ EndingReturn
    \/ Update

GameSpec == GameInit /\ [][GameNext]_vars

(***************************************************************************)
(* Properties of the game runtime.                                         *)
(***************************************************************************)
\* C30: in the game runtime, for any sequence of key, mouse and frame-update
\* events, a choice's effects and the per-turn upkeep are applied once per
\* node change: from a choice activation (pending_node_id set, transition
\* started) to the transition midpoint that installs the destination node,
\* every step either installs the pending node or leaves the pending node
\* and the player's stats as the activation left them.  Starting a new game
\* from the name screen abandons the turn and is exempt.
C30_OneActivationPerNodeChange ==
    [][ (pending_node_id # NoId /\ game_state # "name_entry") =>
          \/ /\ pending_node_id' = NoId
             /\ current_node_id' = pending_node_id
          \/ /\ pending_node_id' = pending_node_id
             /\ player' = player ]_vars

====
